---- MODULE Spec2Model ----
(***************************************************************************)
(* Verification model of the solana-zk-layer2 rollup: the on-chain         *)
(* settlement program (l2-state: batch store, proof verification, bridge   *)
(* vault) and the sequencer (block producer, batcher).                     *)
(*                                                                         *)
(* SHA-256 is modelled symbolically: Hash(bytes) is an injective           *)
(* constructor over the sequence of fixed-width chunks that were hashed,   *)
(* so two digests are equal exactly when the hashed byte strings are.      *)
(***************************************************************************)
EXTENDS Integers, Sequences, FiniteSets, TLC

VARIABLES
    batches,                \* BatchStorage.batches : Vec<BatchData>
    last_finalized,         \* LastFinalizedBatchIndex.batch_index (persisted)
    withdrawal_roots,       \* FinalizedWithdrawalRoots.withdrawal_roots : Vec<(root, bool)>
    vault_balances,         \* BridgeVault.balances : Vec<(Pubkey, u64)>
    vault_lamports,         \* lamports of the bridge_vault account above its rent reserve
    finalized_withdrawals,  \* FinalizedWithdrawals.finalized_withdrawals : Vec<(leaf, bool)>
    deposited,              \* history: lamports each sender moved in by deposit
    paid,                   \* history: how often each withdrawal request was paid out
    proven,                 \* history: withdrawal roots of the records a proof verified for
    last,                   \* outcome of the latest instruction: [op, res, arg]
    committed,              \* history: batch_index -> the data committed last for it
    mempool,                \* Executor.mempool : Vec<Transaction>
    balances,               \* STATE.state.balances : HashMap<String, u128>
    withdrawal_queue,       \* STATE.state.withdrawal_queue : Vec<Withdrawal>
    node,                   \* Node: [latest_block_num, latest_state_root]
    producer,               \* the block-producer task: "running" or "panicked"
    block_db,               \* BLOCK_DB: [blocks, latest_block_num, latest_state_root, cache]
    state_db,               \* sled keys balance_state / withdrawal_queue of StateDB
    restarts,               \* how often the sequencer process was started again
    rpc_response,           \* the latest JSON-RPC response: [result, error], Options
    prover,                 \* the prover host: [status, state, attempt]
    tasks,                  \* the sequencer's tasks and locks: [locks, pc, ops, debited]
    oracle                  \* the deposit oracle: [rx, received, relayed]

l1vars == <<batches, last_finalized, withdrawal_roots, vault_balances,
            vault_lamports, finalized_withdrawals, deposited, paid, proven, last,
            committed>>

seqvars == <<mempool, balances, withdrawal_queue, node, producer, block_db, state_db,
             restarts, rpc_response, prover, tasks, oracle>>

vars == <<l1vars, seqvars>>

(***************************************************************************)
(* Bounds of the model.                                                    *)
(***************************************************************************)
MaxBatches == 2         \* batch indexes committed and proven: 1..MaxBatches
MaxBridgeBatches == 1   \* batch indexes committed while the bridge is in use
MaxAmount == 2          \* deposit amounts: 1..MaxAmount
MaxDeposited == 3       \* cap on the lamports one sender deposits in a run
MaxBlocks == 3          \* blocks the producer makes in a run
MaxPending == 2         \* transactions admitted while the mempool is watched
MaxBalance == 2         \* L2 balances a transfer run starts from: 0..MaxBalance
MaxOps == 2             \* transfer operations handed to one transfer run
MaxFaults == 1          \* writes the block store or the state store refuses
MaxGuestBlocks == 2     \* blocks in one input of the zkVM guest
MaxQueue == 5           \* withdrawals in the queue a proof is generated over
MaxRestarts == 1        \* restarts of the sequencer process
MaxElapsed == 21        \* longest wait of the producer before a wake-up, in 100 ms
MaxEvents == 3          \* deposit events the oracle receives

Users == {"A", "B"}

(***************************************************************************)
(* Bytes and hashing.                                                      *)
(***************************************************************************)
ZERO32 == <<"zero32", <<>>>>                    \* [0u8; 32]
Hash(bytes) == <<"sha256", bytes>>
RawKey(a) == <<"pubkey32", a>>                  \* Pubkey::to_bytes()
StrKey(a) == <<"base58", a>>                    \* String::as_bytes() of the base58 text
BeU64(n) == <<"be_u64", n>>                     \* u64::to_be_bytes()

RECURSIVE Concat(_)
Concat(data) ==
    IF data = <<>> THEN <<>> ELSE Head(data) \o Concat(Tail(data))

\* util.rs: [0u8; 32] for an empty vector, else the hash of the concatenation.
hash_nested_vector(data) ==
    IF data = <<>> THEN ZERO32 ELSE Hash(Concat(data))

Bit(index, height) == (index \div (2 ^ height)) % 2

RECURSIVE MerkleFold(_, _, _, _)
MerkleFold(computed_hash, proof, index, height) ==
    IF height > Len(proof) THEN computed_hash
    ELSE LET sibling == proof[height]
             next == IF Bit(index, height - 1) = 1
                     THEN Hash(<<sibling, computed_hash>>)
                     ELSE Hash(<<computed_hash, sibling>>)
         IN MerkleFold(next, proof, index, height + 1)

verify_merkle_proof(leaf_hash, proof, index, root) ==
    MerkleFold(leaf_hash, proof, index, 1) = root

\* bridge.rs: the leaf the program recomputes from the instruction's accounts.
WithdrawalDataHash(sender, to, amount, index) ==
    Hash(<<RawKey(sender), RawKey(to), BeU64(amount), BeU64(index)>>)

(***************************************************************************)
(* Merkle tree over a vector of leaf hashes (share/src/state.rs): an odd   *)
(* leaf vector is padded with a zero leaf, an odd inner level pairs its    *)
(* last node with itself.                                                  *)
(***************************************************************************)
NextLevel(nodes) ==
    [i \in 1..((Len(nodes) + 1) \div 2) |->
        LET left == nodes[2 * i - 1]
            right == IF 2 * i <= Len(nodes) THEN nodes[2 * i] ELSE left
        IN Hash(<<left, right>>)]

RECURSIVE MerkleTop(_)
MerkleTop(nodes) ==
    IF Len(nodes) <= 1 THEN nodes ELSE MerkleTop(NextLevel(nodes))

PadZeroLeaf(leaf_hashes) ==
    IF Len(leaf_hashes) % 2 = 1 THEN Append(leaf_hashes, ZERO32) ELSE leaf_hashes

WithdrawalTreeRoot(leaf_hashes) == MerkleTop(PadZeroLeaf(leaf_hashes))[1]

(***************************************************************************)
(* Vec<(key, value)> accounts of the settlement program.                   *)
(***************************************************************************)
\* position of the first entry with the key, 0 when there is none (iter().find)
FindKey(vec, key) ==
    LET hits == {i \in 1..Len(vec) : vec[i][1] = key}
    IN IF hits = {} THEN 0 ELSE CHOOSE i \in hits : \A j \in hits : i <= j

get_balance(vault, pubkey) ==
    IF FindKey(vault, pubkey) = 0 THEN 0 ELSE vault[FindKey(vault, pubkey)][2]

set_balance_M(vault, pubkey, amount) == Append(vault, <<pubkey, amount>>)

set_balance(vault, pubkey, amount) ==
    IF FindKey(vault, pubkey) = 0
    THEN Append(vault, <<pubkey, amount>>)
    ELSE [vault EXCEPT ![FindKey(vault, pubkey)] = <<pubkey, amount>>]

get_finalized_M(entries, key) == TRUE

get_finalized(entries, key) ==
    IF FindKey(entries, key) = 0 THEN FALSE ELSE entries[FindKey(entries, key)][2]

set_finalized(entries, key, finalized) ==
    IF FindKey(entries, key) = 0
    THEN Append(entries, <<key, finalized>>)
    ELSE [entries EXCEPT ![FindKey(entries, key)] = <<key, finalized>>]

\* position of the first BatchData with the index, 0 when there is none
FindBatch(store, batch_index) ==
    LET hits == {i \in 1..Len(store) : store[i].batch_index = batch_index}
    IN IF hits = {} THEN 0 ELSE CHOOSE i \in hits : \A j \in hits : i <= j

get_committed_batch(store, batch_index) ==
    IF FindBatch(store, batch_index) = 0 THEN <<>>
    ELSE <<store[FindBatch(store, batch_index)]>>

\* Option<BatchData> as a sequence of length 0 or 1: storage.last()
get_latest_batch(store) ==
    IF store = <<>> THEN <<>> ELSE <<store[Len(store)]>>

(***************************************************************************)
(* Account constraints of the instruction contexts.  The framework writes  *)
(* an account back at the end of an instruction only when its constraint   *)
(* list has `mut` (or `init`); what a handler assigns to any other account *)
(* is dropped.                                                             *)
(***************************************************************************)
CommitBatchAccounts == [batch_storage |-> TRUE]

ProveStateAccounts_M ==
    [batch_storage |-> FALSE, last_finalized |-> TRUE, withdrawal_roots |-> TRUE]

ProveStateAccounts ==
    [batch_storage |-> FALSE, last_finalized |-> FALSE, withdrawal_roots |-> TRUE]

DepositAccounts == [bridge_vault |-> TRUE]

WithdrawalAccounts ==
    [bridge_vault |-> TRUE, withdrawal_roots |-> FALSE, withdrawals |-> TRUE]

AccountsExit(is_mut, stored, assigned) == IF is_mut THEN assigned ELSE stored

(***************************************************************************)
(* Settlement instructions.  A failed instruction changes no account; only *)
(* its outcome is observed in `last`.                                      *)
(***************************************************************************)
Authority == "authority"

Fail(op, err, arg) ==
    /\ last' = [op |-> op, res |-> err, arg |-> arg]
    /\ UNCHANGED <<batches, last_finalized, withdrawal_roots, vault_balances,
                   vault_lamports, finalized_withdrawals, deposited, paid, proven,
                   committed>>

BatchDataOf(batch_info) ==
    [batch_index |-> batch_info.batch_index,
     start_block_num |-> batch_info.start_block_num,
     end_block_num |-> batch_info.end_block_num,
     batch_hash |-> hash_nested_vector(batch_info.blocks),
     prev_state_root |-> batch_info.prev_state_root,
     post_state_root |-> batch_info.post_state_root,
     withdrawal_root |-> batch_info.withdrawal_root]

CommitStore_M(store, batch_info) == Append(store, BatchDataOf(batch_info))

\* state.rs commit_batch: overwrite the record of the same index, else push
CommitStore(store, batch_info) ==
    IF FindBatch(store, batch_info.batch_index) = 0
    THEN Append(store, BatchDataOf(batch_info))
    ELSE [store EXCEPT ![FindBatch(store, batch_info.batch_index)] = BatchDataOf(batch_info)]

commit_batch(signer, batch_info) ==
    IF signer # Authority
    THEN Fail("commit_batch", "ConstraintHasOne", batch_info.batch_index)
    ELSE /\ batches' = AccountsExit(CommitBatchAccounts.batch_storage, batches,
                                    CommitStore(batches, batch_info))
         /\ last' = [op |-> "commit_batch", res |-> "Ok", arg |-> batch_info.batch_index]
         /\ committed' = [k \in DOMAIN committed \cup {batch_info.batch_index} |->
                             IF k = batch_info.batch_index THEN BatchDataOf(batch_info)
                             ELSE committed[k]]
         /\ UNCHANGED <<last_finalized, withdrawal_roots, vault_balances,
                        vault_lamports, finalized_withdrawals, deposited, paid, proven>>

\* the public-input commitment prove_state binds a proof to
PiHash(batch) ==
    hash_nested_vector(<< <<batch.prev_state_root>>, <<batch.post_state_root>>,
                          <<batch.withdrawal_root>>, <<batch.batch_hash>> >>)

\* sp1_solana::verify_proof, a black box: it accepts exactly the proofs made
\* for the public inputs it is given
Groth16For(public_inputs) == <<"groth16", public_inputs>>
JunkProof == <<"junk", <<>>>>
verify_proof(proof, public_inputs) == proof = Groth16For(public_inputs)

prove_batch_M(proof, public_inputs) == "Ok"

\* verifier.rs prove_batch: a rejected proof becomes InvalidInstructionData
prove_batch(proof, public_inputs) ==
    IF verify_proof(proof, public_inputs) THEN "Ok" ELSE "InvalidInstructionData"

prove_state(batch_index, proof) ==
    IF FindBatch(batches, batch_index) = 0
    THEN Fail("prove_batch", "BatchNotExist", [batch_index |-> batch_index, proof |-> proof])
    ELSE LET batch == batches[FindBatch(batches, batch_index)]
             call == [batch_index |-> batch_index, proof |-> proof]
         IN IF prove_batch(proof, PiHash(batch)) # "Ok"
            THEN Fail("prove_batch", prove_batch(proof, PiHash(batch)), call)
            ELSE /\ last_finalized' = AccountsExit(ProveStateAccounts.last_finalized,
                                                   last_finalized, batch_index)
                 /\ withdrawal_roots' =
                        AccountsExit(ProveStateAccounts.withdrawal_roots, withdrawal_roots,
                                     set_finalized(withdrawal_roots, batch.withdrawal_root, TRUE))
                 /\ proven' = proven \cup {batch.withdrawal_root}
                 /\ last' = [op |-> "prove_batch", res |-> "Ok", arg |-> call]
                 /\ UNCHANGED <<batches, vault_balances, vault_lamports,
                                finalized_withdrawals, deposited, paid, committed>>

\* bridge.rs deposit; `funded` is whether the system-program transfer succeeds
deposit(sender, amount, funded) ==
    IF ~funded
    THEN Fail("deposit", "TransferFailed", sender)
    ELSE /\ deposited[sender] + amount <= MaxDeposited
         /\ vault_lamports' = vault_lamports + amount
         /\ vault_balances' =
                AccountsExit(DepositAccounts.bridge_vault, vault_balances,
                             set_balance(vault_balances, sender,
                                         get_balance(vault_balances, sender) + amount))
         /\ deposited' = [deposited EXCEPT ![sender] = @ + amount]
         /\ last' = [op |-> "deposit", res |-> "Ok", arg |-> sender]
         /\ UNCHANGED <<batches, last_finalized, withdrawal_roots,
                        finalized_withdrawals, paid, proven, committed>>

InsufficientBalance_M(current_amount, amount) == FALSE

\* bridge.rs withdrawal: the balance check
InsufficientBalance(current_amount, amount) == current_amount < amount

\* bridge.rs withdrawal; request = the signer, the `to` account, amount and index
withdrawal(request, withdraw_root, withdrawal_proof) ==
    LET sender == request.sender
        amount == request.amount
        withdrawal_data_hash ==
            WithdrawalDataHash(sender, request.to, amount, request.index)
        current_amount == get_balance(vault_balances, sender)
        call == [request |-> request, root |-> withdraw_root, proof |-> withdrawal_proof]
    IN IF ~get_finalized(withdrawal_roots, withdraw_root)
       THEN Fail("withdrawal", "WithdrawalRootNotFinalized", call)
       ELSE IF ~verify_merkle_proof(withdrawal_data_hash, withdrawal_proof,
                                    request.index, withdraw_root)
       THEN Fail("withdrawal", "InvalidWithdrawalInclusionProof", call)
       ELSE IF InsufficientBalance(current_amount, amount)
       THEN Fail("withdrawal", "UserBalanceInsufficent", call)
       ELSE /\ finalized_withdrawals' =
                   AccountsExit(WithdrawalAccounts.withdrawals, finalized_withdrawals,
                                set_finalized(finalized_withdrawals, withdrawal_data_hash, TRUE))
            /\ vault_balances' =
                   AccountsExit(WithdrawalAccounts.bridge_vault, vault_balances,
                                set_balance(vault_balances, sender, current_amount - amount))
            /\ vault_lamports' = vault_lamports - amount
            /\ paid' = [paid EXCEPT ![request] = @ + 1]
            /\ last' = [op |-> "withdrawal", res |-> "Ok", arg |-> call]
            /\ UNCHANGED <<batches, last_finalized, withdrawal_roots, deposited, proven,
                           committed>>

(***************************************************************************)
(* Inputs callers of the settlement program choose from.                   *)
(***************************************************************************)
Signers == {Authority, "A"}

\* withdrawals of an L2 queue, hashed with the program's leaf encoding
ExitQueue ==
    << [sender |-> "A", to |-> "A", amount |-> 1, index |-> 0],
       [sender |-> "B", to |-> "B", amount |-> 2, index |-> 1] >>

\* the queued exits, and one the queue does not hold (another destination)
WithdrawalRequests ==
    {ExitQueue[i] : i \in 1..Len(ExitQueue)}
        \cup {[sender |-> "A", to |-> "B", amount |-> 1, index |-> 0]}

ExitLeaf(w) == WithdrawalDataHash(w.sender, w.to, w.amount, w.index)

ExitRoot(range) == WithdrawalTreeRoot([i \in 1..range |-> ExitLeaf(ExitQueue[i])])

WithdrawRoots == {ExitRoot(r) : r \in 1..Len(ExitQueue)}

InclusionProofs ==
    {<<ZERO32>>} \cup {<<ExitLeaf(ExitQueue[i])>> : i \in 1..Len(ExitQueue)}

\* an honest chain of state roots: batch k goes from StateRootAt(k-1) to StateRootAt(k)
StateRootAt(k) ==
    IF k = 0 THEN ZERO32 ELSE Hash(<<StrKey("A"), <<"be_u128", k>>>>)

BlockBlob(n) == <<"da_blob", n>>

BatchInfoOf(k, w) ==
    [batch_index |-> k, blocks |-> << <<BlockBlob(k)>> >>,
     start_block_num |-> k, end_block_num |-> k,
     prev_state_root |-> StateRootAt(k - 1), post_state_root |-> StateRootAt(k),
     withdrawal_root |-> w]

\* batches with any of the withdrawal roots, so that a commit can replace the
\* root of a stored record
BatchInfos == {BatchInfoOf(k, w) : k \in 1..MaxBatches, w \in WithdrawRoots}

\* batches over the whole exit queue
BridgeBatchInfos == {BatchInfoOf(k, ExitRoot(Len(ExitQueue))) : k \in 1..MaxBridgeBatches}

ProofsFor(batch_infos) ==
    {JunkProof} \cup {Groth16For(PiHash(BatchDataOf(bi))) : bi \in batch_infos}

\* state.rs initialize: five empty accounts, frontier 0
L1Init ==
    /\ batches = <<>>
    /\ last_finalized = 0
    /\ withdrawal_roots = <<>>
    /\ vault_balances = <<>>
    /\ vault_lamports = 0
    /\ finalized_withdrawals = <<>>
    /\ deposited = [u \in Users |-> 0]
    /\ paid = [r \in WithdrawalRequests |-> 0]
    /\ proven = {}
    /\ last = [op |-> "initialize", res |-> "Ok", arg |-> 0]
    /\ committed = <<>>

(***************************************************************************)
(* Sequencer: executor, block producer and batcher.                        *)
(* Balances are counted in units of the amount the executor moves per      *)
(* transfer.  An Option is a sequence: <<>> for None, <<v>> for Some(v).   *)
(***************************************************************************)
MAX_MEMPOOL_SIZE == 1024
MAX_BLOCK_COUNT_IN_BATCH == 256
BLOCK_CACHE_SIZE == 128
DEV_ACCOUNT_SEED == 100000          \* 100 * 10^9, in units of 10^6

DevAccount == "A"

\* share/lib.rs
WITHDRAWAL_ADDRESS == "AF111111111111111111111111111111"

unwrap_or_default(opt) == IF opt = <<>> THEN ZERO32 ELSE opt[1]

\* share/state.rs calculate_user_hash: address.as_bytes(), balance.to_be_bytes()
calculate_user_hash(address, balance) == Hash(<<StrKey(address), <<"be_u128", balance>>>>)

\* share/state.rs calculate_withdrawal_hash: the addresses as strings
calculate_withdrawal_hash(w) ==
    Hash(<<StrKey(w.from), StrKey(w.to), BeU64(w.amount), BeU64(w.index)>>)

\* the orders in which a HashMap with these keys can be iterated
IterationOrders(map) ==
    {order \in [1..Cardinality(DOMAIN map) -> DOMAIN map] :
        \A i, j \in 1..Cardinality(DOMAIN map) : order[i] = order[j] => i = j}

\* share/state.rs calculate_state_root, for one iteration order of the map
calculate_state_root(map, order) ==
    IF DOMAIN map = {} THEN <<>>
    ELSE LET leaf_hashes == [i \in 1..Len(order) |-> calculate_user_hash(order[i], map[order[i]])]
             padded == IF Len(leaf_hashes) % 2 = 1
                       THEN Append(leaf_hashes, leaf_hashes[Len(leaf_hashes)])
                       ELSE leaf_hashes
         IN <<MerkleTop(padded)[1]>>

\* share/state.rs calculate_withdrawal_root
calculate_withdrawal_root(queue) ==
    IF queue = <<>> THEN <<>>
    ELSE <<WithdrawalTreeRoot([i \in 1..Len(queue) |-> calculate_withdrawal_hash(queue[i])])>>

\* serde_json::to_vec of a transaction or a block
Json(value) == <<"json", value>>

\* share/transaction.rs calculate_txns_root: one hash over all the encodings
calculate_txns_root(txns) == Hash([i \in 1..Len(txns) |-> Json(txns[i])])

\* executor.rs parsing_sys_instruction: the transfer an instruction of the
\* system program holds, as an Option
parsing_sys_instruction(txn) == txn.transfer

\* executor.rs parsing_instruction: "Err" for a program index out of range,
\* otherwise Ok(None): what parsing_sys_instruction found is dropped
parsing_instruction(txn) ==
    IF ~txn.program_id_index_valid THEN "Err"
    ELSE LET found == parsing_sys_instruction(txn) IN "None"

\* executor.rs pre_process: the first Err of an instruction, else Ok(None)
pre_process(txn) == IF parsing_instruction(txn) = "Err" THEN "Err" ELSE "None"

BalanceOf(map, address) == IF address \in DOMAIN map THEN map[address] ELSE 0

Insert(map, address, balance) ==
    [a \in DOMAIN map \cup {address} |-> IF a = address THEN balance ELSE map[a]]

MoveBalance_M(map, op) ==
    LET debited == Insert(map, op.from, BalanceOf(map, op.from) - op.amount)
    IN Insert(debited, op.to, BalanceOf(map, op.to) + op.amount)

\* executor.rs transfer, "change the balance": the sender is debited first and
\* the balance of the receiver is read after that
MoveBalance(map, op) ==
    LET debited == Insert(map, op.from, BalanceOf(map, op.from) - op.amount)
    IN Insert(debited, op.to, BalanceOf(debited, op.to) + op.amount)

\* executor.rs transfer: stops at the first sender that cannot pay and keeps
\* what the earlier operations did
RECURSIVE transfer(_, _)
transfer(map, ops) ==
    IF ops = <<>> THEN map
    ELSE IF BalanceOf(map, Head(ops).from) < Head(ops).amount THEN map
    ELSE transfer(MoveBalance(map, Head(ops)), Tail(ops))

\* executor.rs transfer: Err when some sender could not pay
RECURSIVE transfer_result(_, _)
transfer_result(map, ops) ==
    IF ops = <<>> THEN "Ok"
    ELSE IF BalanceOf(map, Head(ops).from) < Head(ops).amount THEN "Err"
    ELSE transfer_result(MoveBalance(map, Head(ops)), Tail(ops))

\* executor.rs execute, from the STATE lock on: the operations found in the
\* pending transactions are handed to transfer and its result is dropped
execute_transfers(ops) ==
    /\ balances' = transfer(balances, ops)
    /\ last' = [op |-> "transfer", res |-> transfer_result(balances, ops),
                arg |-> [ops |-> ops, balances |-> balances,
                         withdrawal_queue |-> withdrawal_queue]]
    /\ UNCHANGED <<mempool, withdrawal_queue, node, producer, block_db, state_db, restarts,
                   rpc_response, prover, tasks, oracle>>
    /\ UNCHANGED <<batches, last_finalized, withdrawal_roots, vault_balances,
                   vault_lamports, finalized_withdrawals, deposited, paid, proven,
                   committed>>

\* executor.rs execute: unwrap().unwrap() panics on a transaction for which
\* pre_process gave Err or Ok(None)
ExecutePanics(pending_txns) ==
    \E i \in 1..Len(pending_txns) : pre_process(pending_txns[i]) \in {"Err", "None"}

\* share/transaction.rs Block::new with the withdrawal_root field node.rs sets
BlockNew(txns) ==
    [block_num |-> 0, txns |-> txns, txns_root |-> <<>>, prev_state_root |-> <<>>,
     post_state_root |-> <<>>, withdrawal_root |-> <<>>]

add_tnx_M(txn) ==
    /\ producer = "running"
    /\ mempool' = IF Len(mempool) > MAX_MEMPOOL_SIZE THEN mempool ELSE <<txn>> \o mempool
    /\ UNCHANGED <<balances, withdrawal_queue, node, producer, block_db, state_db, restarts,
                   rpc_response, prover, tasks, oracle>>
    /\ UNCHANGED l1vars

\* executor.rs add_tnx
add_tnx(txn) ==
    /\ producer = "running"
    /\ mempool' = IF Len(mempool) > MAX_MEMPOOL_SIZE THEN mempool ELSE Append(mempool, txn)
    /\ UNCHANGED <<balances, withdrawal_queue, node, producer, block_db, state_db, restarts,
                   rpc_response, prover, tasks, oracle>>
    /\ UNCHANGED l1vars

\* validator.rs validate_signatures: some signature, none of them the default
\* one, and Transaction::verify passes
validate_signatures(txn) ==
    IF txn.signatures = "valid" THEN "Ok" ELSE "Err"

\* validator.rs validate_transaction_format: account keys, instructions, and as
\* many signatures as the header requires
validate_transaction_format(txn) ==
    IF txn.format = "ok" THEN "Ok" ELSE "Err"

\* validator.rs validate_transaction; the balance and fee checks accept everything
validate_transaction(sign_check, txn) ==
    IF sign_check /\ validate_signatures(txn) = "Err" THEN "Err"
    ELSE IF validate_transaction_format(txn) = "Err" THEN "Err"
    ELSE "Ok"

JsonRpcResponse(result, error) == [result |-> result, error |-> error]

\* rpc.rs send_transaction: the test that rejects an admission
MempoolFull(pool) == Len(pool) > MAX_MEMPOOL_SIZE

\* rpc.rs send_transaction; the request decodes to a transaction or does not
send_transaction(request) ==
    /\ IF request.decoded = <<>>
       THEN /\ rpc_response' = JsonRpcResponse(<<>>, <<-32602>>)
            /\ UNCHANGED mempool
       ELSE LET transaction == request.decoded[1]
            IN IF validate_transaction(TRUE, transaction) = "Err"
               THEN /\ rpc_response' = JsonRpcResponse(<<>>, <<-32003>>)
                    /\ UNCHANGED mempool
               ELSE IF MempoolFull(mempool)
               THEN /\ rpc_response' = JsonRpcResponse(<<transaction.signature>>, <<-32602>>)
                    /\ UNCHANGED mempool
               ELSE /\ mempool' = Append(mempool, transaction)
                    /\ rpc_response' = JsonRpcResponse(<<transaction.signature>>, <<>>)
    /\ UNCHANGED <<balances, withdrawal_queue, node, producer, block_db, state_db, restarts,
                   prover, tasks, oracle>>
    /\ UNCHANGED l1vars

\* node.rs create_block, after execute returned a block
create_block(block) ==
    [block EXCEPT !.prev_state_root = <<node.latest_state_root>>,
                  !.block_num = node.latest_block_num + 1]

\* node.rs save_block: the three roots of the block
SealBlock(block, order) ==
    [block EXCEPT
        !.post_state_root = <<unwrap_or_default(calculate_state_root(balances, order))>>,
        !.withdrawal_root = <<unwrap_or_default(calculate_withdrawal_root(withdrawal_queue))>>,
        !.txns_root = <<calculate_txns_root(block.txns)>>]

PushCache(cache, block) ==
    Append(IF Len(cache) = BLOCK_CACHE_SIZE THEN Tail(cache) ELSE cache, block)

\* how far save_block gets: "ok", or the write the store refuses
SaveOutcomes ==
    {"ok", "block_insert", "latest_block_num_insert", "latest_state_root_insert",
     "state_save"}

save_block_M(block, outcome) ==
    [blocks |-> [n \in DOMAIN block_db.blocks \cup {block.block_num} |->
                    IF n = block.block_num THEN Json(block) ELSE block_db.blocks[n]],
     latest_block_num |-> <<block.block_num>>,
     latest_state_root |-> <<unwrap_or_default(block.prev_state_root)>>,
     cache |-> PushCache(block_db.cache, block),
     io_errors |-> block_db.io_errors + (IF outcome = "ok" THEN 0 ELSE 1)]

\* node.rs save_block: what it writes to the block store.  The cache is pushed
\* first; the first insert that fails returns the error and skips the rest.
save_block(block, outcome) ==
    [blocks |-> IF outcome = "block_insert" THEN block_db.blocks
                ELSE [n \in DOMAIN block_db.blocks \cup {block.block_num} |->
                        IF n = block.block_num THEN Json(block) ELSE block_db.blocks[n]],
     latest_block_num |-> IF outcome \in {"block_insert", "latest_block_num_insert"}
                          THEN block_db.latest_block_num
                          ELSE <<block.block_num>>,
     latest_state_root |-> IF outcome \in {"ok", "state_save"}
                           THEN <<block.post_state_root[1]>>
                           ELSE block_db.latest_state_root,
     cache |-> PushCache(block_db.cache, block),
     io_errors |-> block_db.io_errors + (IF outcome = "ok" THEN 0 ELSE 1)]

\* one round of the loop of node.rs start that generates a block: execute,
\* create_block, save_block.  The task ends when execute panics or when
\* StateDB::save does; an Err of save_block is dropped (let _ =).
GenerateBlock ==
    /\ IF ExecutePanics(mempool)
       THEN /\ producer' = "panicked"
            /\ UNCHANGED <<mempool, balances, withdrawal_queue, node, block_db, state_db,
                           restarts, rpc_response, prover, tasks, oracle>>
       ELSE \E order \in IterationOrders(balances), outcome \in SaveOutcomes :
              LET block == SealBlock(create_block(BlockNew(mempool)), order)
              IN /\ outcome = "ok" \/ block_db.io_errors < MaxFaults
                 /\ balances' = transfer(balances, <<>>)
                 /\ node' = [node EXCEPT !.latest_block_num = @ + 1]
                 /\ block_db' = save_block(block, outcome)
                 /\ state_db' = IF outcome = "ok"
                                THEN <<[balance_state |-> balances',
                                        withdrawal_queue |-> withdrawal_queue]>>
                                ELSE state_db
                 /\ producer' = IF outcome = "state_save" THEN "panicked" ELSE producer
                 /\ UNCHANGED <<mempool, withdrawal_queue, restarts, rpc_response, prover, tasks, oracle>>

\* a round of the loop that found a block due
ProduceBlock ==
    /\ producer = "running"
    /\ node.latest_block_num < MaxBlocks
    /\ GenerateBlock
    /\ UNCHANGED l1vars

\* node.rs BLOCK_TIME_INTERVAL, in units of 100 ms (the sleep of the loop)
BLOCK_TIME_INTERVAL == 2

\* node.rs start: should_generate_block.  last_time.elapsed() is read once for
\* each clause, the second time no earlier than the first.
should_generate_block(elapsed, pending_size, elapsed_again) ==
    LET time_elapsed == elapsed >= BLOCK_TIME_INTERVAL
    IN (time_elapsed /\ pending_size > 0) \/ elapsed_again > 10 * BLOCK_TIME_INTERVAL

\* node.rs start: one round of the loop, the task waking up `elapsed` after
\* the last block
Wake(elapsed, elapsed_again) ==
    /\ producer = "running"
    /\ node.latest_block_num < MaxBlocks
    /\ last' = [op |-> "wake",
                res |-> should_generate_block(elapsed, Len(mempool), elapsed_again),
                arg |-> [elapsed |-> elapsed, pending_size |-> Len(mempool),
                         elapsed_again |-> elapsed_again]]
    /\ IF should_generate_block(elapsed, Len(mempool), elapsed_again)
       THEN GenerateBlock
       ELSE UNCHANGED seqvars
    /\ UNCHANGED <<batches, last_finalized, withdrawal_roots, vault_balances,
                   vault_lamports, finalized_withdrawals, deposited, paid, proven,
                   committed>>

NextBatch_M(latest_batch) ==
    IF latest_batch # <<>>
    THEN [batch_index |-> latest_batch[1].batch_index + 1, blocks |-> <<>>,
          start_block_num |-> latest_batch[1].end_block_num + 1, end_block_num |-> 0,
          prev_state_root |-> latest_batch[1].prev_state_root,
          post_state_root |-> ZERO32, withdrawal_root |-> ZERO32]
    ELSE [batch_index |-> 1, blocks |-> <<>>, start_block_num |-> 1, end_block_num |-> 0,
          prev_state_root |-> ZERO32, post_state_root |-> ZERO32,
          withdrawal_root |-> ZERO32]

\* tx_batcher.rs smart_submit: the batch it starts from the latest one on chain
NextBatch(latest_batch) ==
    IF latest_batch # <<>>
    THEN [batch_index |-> latest_batch[1].batch_index + 1, blocks |-> <<>>,
          start_block_num |-> latest_batch[1].end_block_num + 1, end_block_num |-> 0,
          prev_state_root |-> latest_batch[1].post_state_root,
          post_state_root |-> ZERO32, withdrawal_root |-> ZERO32]
    ELSE [batch_index |-> 1, blocks |-> <<>>, start_block_num |-> 1, end_block_num |-> 0,
          prev_state_root |-> ZERO32, post_state_root |-> ZERO32,
          withdrawal_root |-> ZERO32]

\* tx_batcher.rs collect_blocks_for_batch; callers have start <= latest
collect_blocks_for_batch(db, start_block_num, latest_block_num_local) ==
    LET blocks_count ==
            IF latest_block_num_local - start_block_num > MAX_BLOCK_COUNT_IN_BATCH
            THEN MAX_BLOCK_COUNT_IN_BATCH
            ELSE latest_block_num_local - start_block_num
        range == start_block_num..(start_block_num + blocks_count - 1)
    IN IF \E i \in range : i \notin DOMAIN db.blocks THEN <<>>
       ELSE [i \in 1..blocks_count |-> db.blocks[start_block_num + i - 1][2]]

\* tx_batcher.rs smart_submit
smart_submit ==
    LET next_batch == NextBatch(get_latest_batch(batches))
        latest_block_num == IF block_db.latest_block_num = <<>> THEN 0
                            ELSE block_db.latest_block_num[1]
        blocks_to_submit ==
            collect_blocks_for_batch(block_db, next_batch.start_block_num, latest_block_num)
        last_block == blocks_to_submit[Len(blocks_to_submit)]
    IN /\ next_batch.batch_index <= MaxBatches
       /\ IF latest_block_num = 0 \/ blocks_to_submit = <<>>
          THEN UNCHANGED l1vars
          ELSE commit_batch(Authority,
                   [next_batch EXCEPT
                       !.post_state_root = unwrap_or_default(last_block.post_state_root),
                       !.withdrawal_root = unwrap_or_default(last_block.withdrawal_root),
                       !.blocks = [i \in 1..Len(blocks_to_submit) |->
                                       <<Json(blocks_to_submit[i])>>]])
       /\ UNCHANGED seqvars

\* the live state of a sequencer process that was started with or without
\* DEV_ACCOUNT in its environment
SeedDevAccount(dev_account) ==
    IF dev_account THEN Insert(<<>>, DevAccount, DEV_ACCOUNT_SEED) ELSE <<>>

\* node.rs Node::new: block number and state root come from the block store
NodeNew(db) ==
    [latest_block_num |-> IF db.latest_block_num = <<>> THEN 0 ELSE db.latest_block_num[1],
     latest_state_root |-> unwrap_or_default(db.latest_state_root)]

EmptyBlockDB ==
    [blocks |-> <<>>, latest_block_num |-> <<>>, latest_state_root |-> <<>>, cache |-> <<>>,
     io_errors |-> 0]

\* main.rs: the process starts over an existing block store
Restart ==
    /\ restarts < MaxRestarts
    /\ restarts' = restarts + 1
    /\ \E dev_account \in BOOLEAN : balances' = SeedDevAccount(dev_account)
    /\ mempool' = <<>>
    /\ withdrawal_queue' = <<>>
    /\ node' = NodeNew(block_db)
    /\ producer' = "running"
    /\ block_db' = [block_db EXCEPT !.cache = <<>>]
    /\ UNCHANGED <<state_db, rpc_response, prover, tasks, oracle>>
    /\ UNCHANGED l1vars

\* a signed transfer transaction that passes validation
GoodTx == [signature |-> 1, signatures |-> "valid", format |-> "ok",
           program_id_index_valid |-> TRUE,
           transfer |-> <<[from |-> "A", to |-> "B", amount |-> 1]>>]

Txs == {GoodTx, [GoodTx EXCEPT !.signature = 2, !.program_id_index_valid = FALSE]}

\* the transactions validation tells apart
RpcTxs ==
    {GoodTx} \cup {[GoodTx EXCEPT !.signature = 3, !.signatures = v] :
                      v \in {"none", "default", "invalid"}}
             \cup {[GoodTx EXCEPT !.signature = 4, !.format = v] :
                      v \in {"no_account_keys", "signature_count"}}
             \cup {[GoodTx EXCEPT !.signature = 4, !.format = "no_instructions",
                                  !.transfer = <<>>]}

RpcRequests == {[decoded |-> <<>>]} \cup {[decoded |-> <<txn>>] : txn \in RpcTxs}

(***************************************************************************)
(* Tasks and locks of the sequencer process.  MEMPOOL, STATE and BLOCK_DB  *)
(* are tokio::sync::RwLock: requests are served in the order they were     *)
(* made, readers share, a writer is alone.  A guard is dropped where its   *)
(* binding goes out of scope.                                              *)
(***************************************************************************)
Locks == {"mempool", "state", "block_db"}

\* the producer loop, the batcher loop and two connections served at a time
TaskIds == {"producer", "batcher", "rpc1", "rpc2"}

LockAcquire(lock, mode) == [op |-> "acquire", lock |-> lock, mode |-> mode]
LockRelease(lock) == [op |-> "release", lock |-> lock, mode |-> "none"]
Body(what) == [op |-> what, lock |-> "none", mode |-> "none"]

\* executor.rs execute: mempool.write(), STATE.write(), transfer; the guards
\* are dropped at the end, the later one first
ExecuteProgram ==
    <<LockAcquire("mempool", "write"), LockAcquire("state", "write"), Body("transfer"),
      LockRelease("state"), LockRelease("mempool")>>

Program_M(handler) ==
    CASE handler = "round" ->
            <<LockAcquire("mempool", "read"), LockRelease("mempool")>> \o ExecuteProgram
                \o <<LockAcquire("state", "read"), LockAcquire("block_db", "write"),
                     Body("save"), LockRelease("block_db"), LockRelease("state")>>
      [] handler = "execute" -> ExecuteProgram
      [] handler = "smart_submit" ->
            <<LockAcquire("block_db", "read"), Body("commit_batch"), LockRelease("block_db")>>
      [] handler = "send_transaction" ->
            <<LockAcquire("state", "read"), LockAcquire("mempool", "write"), Body("push"),
              LockRelease("mempool"), LockRelease("state")>>
      [] handler = "get_balance" ->
            <<LockAcquire("state", "read"), Body("get_balance"), LockRelease("state")>>
      [] handler = "get_latest_blockhash" ->
            <<LockAcquire("block_db", "read"), Body("cache"), LockRelease("block_db")>>

\* the lock operations of a handler, in program order:
\* round: pending_size (executor.rs), execute, save_block (node.rs);
\* smart_submit: BLOCK_DB.read() held across commit_batch (tx_batcher.rs);
\* send_transaction, get_balance, get_latest_blockhash: one lock each (rpc.rs)
Program(handler) ==
    CASE handler = "round" ->
            <<LockAcquire("mempool", "read"), LockRelease("mempool")>> \o ExecuteProgram
                \o <<LockAcquire("state", "read"), LockAcquire("block_db", "write"),
                     Body("save"), LockRelease("block_db"), LockRelease("state")>>
      [] handler = "execute" -> ExecuteProgram
      [] handler = "smart_submit" ->
            <<LockAcquire("block_db", "read"), Body("commit_batch"), LockRelease("block_db")>>
      [] handler = "send_transaction" ->
            <<LockAcquire("mempool", "write"), Body("push"), LockRelease("mempool")>>
      [] handler = "get_balance" ->
            <<LockAcquire("state", "read"), Body("get_balance"), LockRelease("state")>>
      [] handler = "get_latest_blockhash" ->
            <<LockAcquire("block_db", "read"), Body("cache"), LockRelease("block_db")>>

\* what a task runs
HandlersOf(task) ==
    IF task = "producer" THEN {"round"}
    ELSE IF task = "batcher" THEN {"smart_submit"}
    ELSE {"send_transaction", "get_balance", "get_latest_blockhash"}

Idle == [handler |-> "idle", at |-> 0, waiting |-> FALSE]

\* no task runs, no lock is held or asked for, no transfer is under way
TasksIdle ==
    [locks |-> [l \in Locks |-> [held |-> {}, queue |-> <<>>]],
     pc |-> [t \in TaskIds |-> Idle],
     ops |-> <<>>,
     debited |-> FALSE]

Granted_M(lock, task) == lock.queue # <<>> /\ lock.queue[1].task = task

\* tokio RwLock: the request at the head of the queue is granted when it is
\* compatible with the guards that are out
Granted(lock, task) ==
    /\ lock.queue # <<>>
    /\ lock.queue[1].task = task
    /\ IF lock.queue[1].mode = "write" THEN lock.held = {}
       ELSE \A guard \in lock.held : guard.mode = "read"

\* every guard of the task dropped, every request of it withdrawn
DropAll(locks, task) ==
    [l \in Locks |->
        [held |-> {guard \in locks[l].held : guard.task # task},
         queue |-> SelectSeq(locks[l].queue, LAMBDA request : request.task # task)]]

\* a task enters a handler; execute is handed the transfers of the block
StartHandler(task, handler, ops) ==
    /\ tasks.pc[task] = Idle
    /\ tasks' = [tasks EXCEPT !.pc[task] = [handler |-> handler, at |-> 1, waiting |-> FALSE],
                              !.ops = IF handler = "execute" THEN ops ELSE @]
    /\ UNCHANGED <<mempool, balances, withdrawal_queue, node, producer, block_db, state_db,
                   restarts, rpc_response, prover, oracle>>
    /\ UNCHANGED l1vars

\* the task moves past the instruction it is at
Advance(task) ==
    LET pc == tasks.pc[task]
    IN IF pc.at = Len(Program(pc.handler)) THEN Idle
       ELSE [pc EXCEPT !.at = @ + 1, !.waiting = FALSE]

\* executor.rs transfer under the STATE write guard, one map operation at a
\* time: the check and the debit of the sender, then the credit of the receiver
TransferStep(task) ==
    IF tasks.ops = <<>>
    THEN /\ tasks' = [tasks EXCEPT !.pc[task] = Advance(task)]
         /\ UNCHANGED balances
    ELSE LET op == Head(tasks.ops)
             from_balance == BalanceOf(balances, op.from)
         IN IF ~tasks.debited
            THEN IF from_balance < op.amount
                 THEN /\ tasks' = [tasks EXCEPT !.ops = <<>>]
                      /\ UNCHANGED balances
                 ELSE /\ balances' = Insert(balances, op.from, from_balance - op.amount)
                      /\ tasks' = [tasks EXCEPT !.debited = TRUE]
            ELSE /\ balances' = Insert(balances, op.to, BalanceOf(balances, op.to) + op.amount)
                 /\ tasks' = [tasks EXCEPT !.debited = FALSE, !.ops = Tail(@)]

\* one step of a task inside a handler
StepTask(task) ==
    LET pc == tasks.pc[task]
        instr == Program(pc.handler)[pc.at]
        lock == tasks.locks[instr.lock]
    IN /\ pc # Idle
       /\ UNCHANGED <<mempool, withdrawal_queue, node, producer, block_db, state_db,
                      restarts, prover, oracle>>
       /\ UNCHANGED l1vars
       /\ IF instr.op = "acquire" /\ ~pc.waiting
          THEN /\ tasks' = [tasks EXCEPT
                              !.locks[instr.lock].queue =
                                  Append(@, [task |-> task, mode |-> instr.mode]),
                              !.pc[task].waiting = TRUE]
               /\ UNCHANGED <<balances, rpc_response>>
          ELSE IF instr.op = "acquire"
          THEN /\ Granted(lock, task)
               /\ tasks' = [tasks EXCEPT
                              !.locks[instr.lock] =
                                  [held |-> lock.held \cup {lock.queue[1]},
                                   queue |-> Tail(lock.queue)],
                              !.pc[task] = Advance(task)]
               /\ UNCHANGED <<balances, rpc_response>>
          ELSE IF instr.op = "release"
          THEN /\ tasks' = [tasks EXCEPT
                              !.locks[instr.lock].held =
                                  {guard \in @ : guard.task # task},
                              !.pc[task] = Advance(task)]
               /\ UNCHANGED <<balances, rpc_response>>
          ELSE IF instr.op = "transfer"
          THEN TransferStep(task) /\ UNCHANGED rpc_response
          ELSE IF instr.op = "get_balance"
          THEN /\ \E pubkey \in Users :
                     rpc_response' = JsonRpcResponse(<<BalanceOf(balances, pubkey)>>, <<>>)
               /\ tasks' = [tasks EXCEPT !.pc[task] = Advance(task)]
               /\ UNCHANGED balances
          ELSE /\ tasks' = [tasks EXCEPT !.pc[task] = Advance(task)]
               /\ UNCHANGED <<balances, rpc_response>>

\* a handler returns early or its task panics: its guards are dropped
LeaveHandler(task) ==
    LET pc == tasks.pc[task]
    IN /\ pc # Idle
       /\ ~pc.waiting
       /\ Program(pc.handler)[pc.at].op # "transfer"
       /\ tasks' = [tasks EXCEPT !.locks = DropAll(tasks.locks, task), !.pc[task] = Idle]
       /\ UNCHANGED <<mempool, balances, withdrawal_queue, node, producer, block_db, state_db,
                      restarts, rpc_response, prover, oracle>>
       /\ UNCHANGED l1vars

(***************************************************************************)
(* Deposit oracle: sequencer/oracle/l1_msg_oracle.rs.  The listener puts   *)
(* every DepositEvent into an unbounded channel; the loop takes them out   *)
(* one by one and sends each to L2.                                        *)
(***************************************************************************)
\* the channel is empty; nothing was received or relayed
OracleIdle == [rx |-> <<>>, received |-> <<>>, relayed |-> <<>>]

\* bridge.rs DepositEvent
DepositEvents == [sender : Users, amount : 1..MaxAmount]

\* l1_msg_oracle.rs: the instruction data of the relay message
RelayParam(event) == <<RawKey(event.sender), BeU64(event.amount)>>

\* how send_to_layer2 ends: Ok, or the Err of get_latest_blockhash or of
\* send_and_confirm_transaction
SendOutcomes == {"Ok", "get_latest_blockhash", "send_and_confirm_transaction"}

\* event_listen.rs create_listener: the callback sends the event into the channel
on_deposit_event(event) ==
    /\ Len(oracle.received) < MaxEvents
    /\ oracle' = [oracle EXCEPT !.rx = Append(@, event), !.received = Append(@, event)]
    /\ UNCHANGED <<mempool, balances, withdrawal_queue, node, producer, block_db, state_db,
                   restarts, rpc_response, prover, tasks>>
    /\ UNCHANGED l1vars

\* l1_msg_oracle.rs listen_deposite_event, one round of the loop: rx.recv(),
\* then let _ = self.send_to_layer2(param)
listen_deposite_event(outcome) ==
    /\ oracle.rx # <<>>
    /\ oracle' = [oracle EXCEPT
                    !.rx = Tail(@),
                    !.relayed = IF outcome = "Ok"
                                THEN Append(@, RelayParam(Head(oracle.rx))) ELSE @]
    /\ UNCHANGED <<mempool, balances, withdrawal_queue, node, producer, block_db, state_db,
                   restarts, rpc_response, prover, tasks>>
    /\ UNCHANGED l1vars

\* state.rs State::new
StateNew == [balances |-> <<>>, withdrawal_queue |-> <<>>]

\* state.rs StateDB::load over StateDB::new: a key that is absent leaves the
\* field of the empty state
StateDBLoad(db) ==
    IF db = <<>> THEN StateNew
    ELSE [balances |-> db[1].balance_state, withdrawal_queue |-> db[1].withdrawal_queue]

\* the prover host before its process is started
ProverDown == [status |-> "down", state |-> StateNew, attempt |-> <<>>]

\* main.rs: a sequencer process starting over empty stores, with or without
\* DEV_ACCOUNT in its environment
SeqStart(dev_account) ==
    /\ mempool = <<>>
    /\ balances = SeedDevAccount(dev_account)
    /\ withdrawal_queue = <<>>
    /\ block_db = EmptyBlockDB
    /\ node = NodeNew(EmptyBlockDB)
    /\ producer = "running"
    /\ state_db = <<>>
    /\ restarts = 0
    /\ rpc_response = JsonRpcResponse(<<>>, <<>>) /\ prover = ProverDown /\ tasks = TasksIdle
          /\ oracle = OracleIdle

\* the settlement program on its own, any caller driving it
Init == L1Init /\ SeqStart(FALSE)

Next ==
    \/ \E signer \in Signers, batch_info \in BridgeBatchInfos :
            commit_batch(signer, batch_info) /\ UNCHANGED seqvars
    \/ \E batch_index \in 1..(MaxBridgeBatches + 1), proof \in ProofsFor(BridgeBatchInfos) :
            prove_state(batch_index, proof) /\ UNCHANGED seqvars
    \/ \E sender \in Users, amount \in 1..MaxAmount, funded \in BOOLEAN :
            deposit(sender, amount, funded) /\ UNCHANGED seqvars
    \/ \E request \in WithdrawalRequests, withdraw_root \in WithdrawRoots,
          withdrawal_proof \in InclusionProofs :
            withdrawal(request, withdraw_root, withdrawal_proof) /\ UNCHANGED seqvars

\* the settlement program with its bridge: commits, proofs, deposits, withdrawals
Spec == Init /\ [][Next]_vars

ProveNext ==
    \/ \E signer \in Signers, batch_info \in BatchInfos :
            commit_batch(signer, batch_info) /\ UNCHANGED seqvars
    \/ \E batch_index \in 1..(MaxBatches + 1), proof \in ProofsFor(BatchInfos) :
            prove_state(batch_index, proof) /\ UNCHANGED seqvars

\* commits and proofs alone, over more batches and with records replaced
ProveSpec == Init /\ [][ProveNext]_vars

SeqNext ==
    \/ \E txn \in Txs : Len(mempool) < MaxPending /\ add_tnx(txn)
    \/ ProduceBlock
    \/ smart_submit
    \/ Restart

\* the sequencer and its batcher over a freshly initialized settlement program
SeqInit == L1Init /\ \E dev_account \in BOOLEAN : SeqStart(dev_account)

SeqSpec == SeqInit /\ [][SeqNext]_vars

WakeNext ==
    \/ \E txn \in Txs : Len(mempool) < MaxPending /\ add_tnx(txn)
    \/ \E elapsed \in 0..MaxElapsed :
         \E elapsed_again \in {elapsed, elapsed + 1} : Wake(elapsed, elapsed_again)

\* the block producer waking up at any time after its last block
WakeSpec == SeqInit /\ [][WakeNext]_vars

\* the operations a block can hand to transfer: between users, to oneself, to
\* the withdrawal address
TransferOps ==
    [from : Users, to : Users \cup {WITHDRAWAL_ADDRESS}, amount : 1..MaxAmount]

OpLists == UNION {[1..n -> TransferOps] : n \in 0..MaxOps}

\* the balance maps a transfer run starts from: some users known, some not
BalanceMaps == UNION {[known -> 0..MaxBalance] : known \in SUBSET Users}

ExecInit ==
    /\ L1Init
    /\ \E map \in BalanceMaps :
          /\ mempool = <<>> /\ balances = map /\ withdrawal_queue = <<>>
          /\ block_db = EmptyBlockDB /\ node = NodeNew(EmptyBlockDB)
          /\ producer = "running" /\ state_db = <<>> /\ restarts = 0
          /\ rpc_response = JsonRpcResponse(<<>>, <<>>) /\ prover = ProverDown /\ tasks = TasksIdle
          /\ oracle = OracleIdle

\* one run per behaviour
ExecNext == last.op # "transfer" /\ \E ops \in OpLists : execute_transfers(ops)

\* one run of transfer from every balance map, over every list of operations
ExecSpec == ExecInit /\ [][ExecNext]_vars

\* transfers of one unit between different users
UserOps == {op \in TransferOps : op.amount = 1 /\ op.to \in Users /\ op.from # op.to}

UserOpLists == UNION {[1..n -> UserOps] : n \in 0..MaxOps}

AtomNext ==
    \/ \E ops \in UserOpLists : StartHandler("producer", "execute", ops)
    \/ \E task \in {"rpc1", "rpc2"} : StartHandler(task, "get_balance", <<>>)
    \/ \E task \in TaskIds : StepTask(task)
    \/ \E task \in TaskIds : LeaveHandler(task)

\* execute step by step against balance queries
AtomSpec == ExecInit /\ [][AtomNext]_vars

LockNext ==
    \/ \E task \in TaskIds : \E handler \in HandlersOf(task) :
            StartHandler(task, handler, <<>>)
    \/ \E task \in TaskIds : StepTask(task)
    \/ \E task \in TaskIds : LeaveHandler(task)

\* the lock operations of the producer, the batcher and the RPC handlers
LockSpec == SeqInit /\ [][LockNext]_vars

OracleNext ==
    \/ \E event \in DepositEvents : on_deposit_event(event)
    \/ \E outcome \in SendOutcomes : listen_deposite_event(outcome)

\* the deposit oracle: events arriving, messages sent or failing
OracleSpec == Init /\ [][OracleNext]_vars

(***************************************************************************)
(* zkVM guest: prover/program main.  A panic of the guest leaves no        *)
(* committed public input.                                                 *)
(***************************************************************************)
\* validator.rs validate_transaction_format tells them apart: a transaction
\* with at least one instruction
HasInstructions(txn) == txn.format # "no_instructions"

GuestTxnsPanic_M(txns) == FALSE

\* main.rs: share parsing_instruction gives Ok(None) or Err for every
\* instruction, so .unwrap().expect("valid instruction") panics on the first
GuestTxnsPanic(txns) == \E i \in 1..Len(txns) : HasInstructions(txns[i])

\* main.rs, the transfer rule: assert the sender can pay, State::sub_balance,
\* State::add_balance; <<>> when the assertion fails, else <<state>>
RECURSIVE guest_transfer(_, _)
guest_transfer(state, ops) ==
    IF ops = <<>> THEN <<state>>
    ELSE LET op == Head(ops)
             from_balance == BalanceOf(state, op.from)
             debited == Insert(state, op.from, from_balance - op.amount)
             credited == Insert(debited, op.to, BalanceOf(debited, op.to) + op.amount)
         IN IF from_balance < op.amount THEN <<>>
            ELSE guest_transfer(credited, Tail(ops))

ChainAssert_M(current_state_root, block) == TRUE

\* main.rs: assert!(current_state_root == block.prev_state_root)
ChainAssert(current_state_root, block) ==
    current_state_root = unwrap_or_default(block.prev_state_root)

\* main.rs: the loop over the blocks; "ok" when no assertion failed
RECURSIVE guest_loop(_, _, _, _)
guest_loop(state, order, blocks, current_state_root) ==
    IF blocks = <<>> THEN "ok"
    ELSE LET block == Head(blocks)
         IN IF ~ChainAssert(current_state_root, block) THEN "panic"
            ELSE IF calculate_txns_root(block.txns) # unwrap_or_default(block.txns_root)
            THEN "panic"
            ELSE IF GuestTxnsPanic(block.txns) THEN "panic"
            ELSE IF unwrap_or_default(calculate_state_root(state, order))
                        # unwrap_or_default(block.post_state_root)
            THEN "panic"
            ELSE guest_loop(state, order, Tail(blocks),
                            unwrap_or_default(block.post_state_root))

\* main.rs calculate_da_hash over the concatenated block encodings
calculate_da_hash(blocks) == Hash([i \in 1..Len(blocks) |-> Json(blocks[i])])

\* main.rs calculate_pi_hash
calculate_pi_hash(prev_state_root, post_state_root, da_hash) ==
    Hash(<<prev_state_root, post_state_root, da_hash>>)

\* main.rs main: the committed public input, <<>> when the guest panicked
guest_main(input, order) ==
    IF input.blocks = <<>> THEN <<>>
    ELSE LET prev_state_root == unwrap_or_default(input.blocks[1].prev_state_root)
             post_state_root ==
                 unwrap_or_default(input.blocks[Len(input.blocks)].post_state_root)
         IN IF guest_loop(input.state, order, input.blocks, prev_state_root) = "panic"
            THEN <<>>
            ELSE <<calculate_pi_hash(prev_state_root, post_state_root,
                                     calculate_da_hash(input.blocks))>>

\* one execution of the guest over an input
prove(input) ==
    /\ \E order \in IterationOrders(input.state) :
          last' = [op |-> "guest", res |-> guest_main(input, order), arg |-> input]
    /\ UNCHANGED <<batches, last_finalized, withdrawal_roots, vault_balances,
                   vault_lamports, finalized_withdrawals, deposited, paid, proven,
                   committed>>
    /\ UNCHANGED seqvars

GuestStates == {<<>>, Insert(<<>>, "A", 1)}

\* the state roots blocks carry: None, the root of the funded state, another
GuestRoots ==
    {<<>>, calculate_state_root(Insert(<<>>, "A", 1), <<"A">>),
     calculate_state_root(Insert(<<>>, "B", 1), <<"B">>)}

\* transaction lists with their txns_root: right, or missing
GuestTxns ==
    {[txns |-> txns, txns_root |-> <<calculate_txns_root(txns)>>] :
        txns \in {<<>>, <<GoodTx>>,
                  <<[GoodTx EXCEPT !.format = "no_instructions", !.transfer = <<>>]>>}}
      \cup {[txns |-> <<>>, txns_root |-> <<>>]}

GuestBlocks ==
    {[block_num |-> 0, txns |-> t.txns, txns_root |-> t.txns_root,
      prev_state_root |-> prev, post_state_root |-> post] :
        t \in GuestTxns, prev \in GuestRoots, post \in GuestRoots}

ZkVMInputs ==
    [state : GuestStates,
     blocks : UNION {[1..n -> GuestBlocks] : n \in 0..MaxGuestBlocks}]

\* one execution per behaviour
GuestNext == last.op # "guest" /\ \E input \in ZkVMInputs : prove(input)

\* the guest run once over every input
GuestSpec == Init /\ [][GuestNext]_vars

(***************************************************************************)
(* Prover host: prover/host main.  The state is loaded once, before the    *)
(* loop; every round of the loop works on batch last_finalized + 1.        *)
(***************************************************************************)
\* share/transaction.rs Block, as load_blocks deserialises a stored block
ShareBlock(stored) ==
    [block_num |-> stored.block_num, txns |-> stored.txns, txns_root |-> stored.txns_root,
     prev_state_root |-> stored.prev_state_root,
     post_state_root |-> stored.post_state_root]

\* share/transaction.rs load_blocks over block_{start} .. block_{end}: None
\* when one of the keys is missing
load_blocks(db, start_block_num, end_block_num) ==
    IF \E i \in start_block_num..end_block_num : i \notin DOMAIN db.blocks THEN <<>>
    ELSE << [i \in 1..(end_block_num - start_block_num + 1) |->
                ShareBlock(db.blocks[start_block_num + i - 1][2])] >>

\* main.rs: end_block_num - start_block_num + 1 in u64 leaves the range of
\* u64 when the batch ends before it starts
BlockCountOverflows(batch) == batch.end_block_num < batch.start_block_num

\* gen_proof.rs prove: the proof of the public input the guest commits, None
\* when the guest commits nothing
gen_proof(state, blocks, order) ==
    LET digest == guest_main([state |-> state.balances, blocks |-> blocks], order)
    IN IF digest = <<>> THEN <<>> ELSE <<Groth16For(digest[1])>>

\* main.rs main, before the loop
ProverStart ==
    /\ prover.status = "down"
    /\ prover' = [status |-> "running", state |-> StateDBLoad(state_db), attempt |-> <<>>]
    /\ UNCHANGED <<mempool, balances, withdrawal_queue, node, producer, block_db, state_db,
                   restarts, rpc_response, tasks, oracle>>
    /\ UNCHANGED l1vars

\* client lib.rs prove_batch: the account metas of the instruction it sends,
\* each with its key and signer flag
Pda(seed) == <<"pda", seed>>

AccountMeta(pubkey, is_signer) == [pubkey |-> pubkey, is_signer |-> is_signer]

prove_batch_accounts ==
    << AccountMeta(Pda("batch_storage"), FALSE),
       AccountMeta(Pda("last_finalized_batch_index"), FALSE),
       AccountMeta("fee_payer", TRUE),
       AccountMeta("system_program", FALSE) >>

\* verifier.rs ProveState: the accounts the instruction takes, in declaration
\* order, each with its type and the key its constraint fixes
ProveStateFields ==
    << [name |-> "sender", type |-> "Signer", key |-> <<>>],
       [name |-> "batch_storage", type |-> "Account", key |-> <<Pda("batch_storage")>>],
       [name |-> "last_finalized", type |-> "Account",
        key |-> <<Pda("last_finalized_batch_index")>>],
       [name |-> "withdrawal_roots", type |-> "Account",
        key |-> <<Pda("finalized_withdrawal_roots")>>],
       [name |-> "system_program", type |-> "Program", key |-> <<"system_program">>] >>

\* the validation #[derive(Accounts)] generates: the accounts of the
\* instruction are taken one per field, in order
RECURSIVE try_accounts(_, _)
try_accounts(fields, accounts) ==
    IF fields = <<>> THEN "Ok"
    ELSE IF accounts = <<>> THEN "AccountNotEnoughKeys"
    ELSE IF Head(fields).type = "Signer" /\ ~Head(accounts).is_signer
    THEN "AccountNotSigner"
    ELSE IF Head(fields).type = "Account" /\ Head(accounts).pubkey # Head(fields).key[1]
    THEN "ConstraintSeeds"
    ELSE IF Head(fields).type = "Program" /\ Head(accounts).pubkey # Head(fields).key[1]
    THEN "InvalidProgramId"
    ELSE try_accounts(Tail(fields), Tail(accounts))

\* client lib.rs prove_batch: the instruction reaches prove_state only when its
\* accounts pass the validation of ProveState
L2StateClient_prove_batch(batch_proof) ==
    IF try_accounts(ProveStateFields, prove_batch_accounts) # "Ok"
    THEN Fail("prove_batch", try_accounts(ProveStateFields, prove_batch_accounts),
              batch_proof)
    ELSE prove_state(batch_proof.batch_index, batch_proof.proof)

\* a gen_proof::prove whose proof the verifier accepts: the proof of the
\* public input the settlement program computes for the batch
accepted_proof(batch, state, blocks, order) == <<Groth16For(PiHash(batch))>>

\* the prover host's gen_proof::prove, which is not given the batch record
guest_proof(batch, state, blocks, order) == gen_proof(state, blocks, order)

\* gen_proof::prove of the prover host built as `build`: the one that proves
\* what the guest commits, or one whose proof the verifier accepts
prove_with(build, batch, state, blocks, order) ==
    IF build = "accepted" THEN accepted_proof(batch, state, blocks, order)
    ELSE guest_proof(batch, state, blocks, order)

\* main.rs main, one round of the loop of the prover host built as `build`.
\* `attempt` records the call of prove: the batch and the state handed over.
ProverRoundWith(build) ==
    LET next_batch_index == last_finalized + 1
        found == get_committed_batch(batches, next_batch_index)
        batch == found[1]
        blocks == load_blocks(block_db, batch.start_block_num, batch.end_block_num)
    IN /\ prover.status = "running"
       /\ UNCHANGED <<mempool, balances, withdrawal_queue, node, producer, block_db,
                      state_db, restarts, rpc_response, tasks, oracle>>
       /\ IF found = <<>>
          THEN UNCHANGED <<prover, l1vars>>
          ELSE IF BlockCountOverflows(batch)
          THEN /\ \E overflow_checks \in BOOLEAN :
                    prover' = IF overflow_checks THEN [prover EXCEPT !.status = "panicked"]
                              ELSE prover
               /\ UNCHANGED l1vars
          ELSE IF blocks = <<>> \/ blocks[1] = <<>>
          THEN UNCHANGED <<prover, l1vars>>
          ELSE /\ prover' = [prover EXCEPT
                               !.attempt = <<[batch_index |-> next_batch_index,
                                              start_block_num |-> batch.start_block_num,
                                              state |-> prover.state]>>]
               /\ \E order \in IterationOrders(prover.state.balances) :
                    LET proof == prove_with(build, batch, prover.state, blocks[1], order)
                    IN IF proof = <<>> THEN UNCHANGED l1vars
                       ELSE L2StateClient_prove_batch([batch_index |-> next_batch_index,
                                                       proof |-> proof[1]])

ProverRound == ProverRoundWith("guest")

\* batches of one block each, as a client with the authority's key commits them
ProverBatchInfos == {BatchInfoOf(k, ZERO32) : k \in 1..MaxBatches}

ProverNext ==
    \/ ProduceBlock
    \/ Restart
    \/ \E batch_info \in ProverBatchInfos :
            commit_batch(Authority, batch_info) /\ UNCHANGED seqvars
    \/ ProverStart
    \/ ProverRound

\* the sequencer, committed batches and the prover host
ProverSpec == SeqInit /\ [][ProverNext]_vars

ProverFairNext ==
    \/ ProduceBlock
    \/ \E batch_info \in ProverBatchInfos :
            commit_batch(Authority, batch_info) /\ UNCHANGED seqvars
    \/ ProverStart
    \/ ProverRoundWith("accepted")

\* the prover host with a gen_proof::prove the verifier accepts; tokio runs
\* main to its loop and the loop wakes every 300 s, so the start and the
\* round are taken whenever they stay possible
ProverFairSpec ==
    /\ SeqInit
    /\ [][ProverFairNext]_vars
    /\ WF_vars(ProverStart)
    /\ WF_vars(ProverRoundWith("accepted"))

(***************************************************************************)
(* Withdrawal inclusion proofs: share/state.rs                             *)
(* generate_withdrawal_merkle_proof.  Indexes count from 0 as in the code. *)
(***************************************************************************)
Sibling_M(nodes, current_index) == nodes[current_index + 1]

\* the sibling hash pushed to the proof at one level: the neighbour, or the
\* node itself when it is the last one of an odd level
Sibling(nodes, current_index) ==
    LET sibling_index == IF current_index % 2 = 0 THEN current_index + 1
                         ELSE current_index - 1
    IN IF sibling_index < Len(nodes) THEN nodes[sibling_index + 1]
       ELSE nodes[current_index + 1]

\* the while loop: one sibling per level, bottom-up
RECURSIVE CollectProof(_, _)
CollectProof(nodes, current_index) ==
    IF Len(nodes) <= 1 THEN <<>>
    ELSE <<Sibling(nodes, current_index)>>
            \o CollectProof(NextLevel(nodes), current_index \div 2)

\* the slice [0..range] or the read of leaf_hashes[index] goes out of bounds
GenerateProofPanics(queue, index, range) ==
    /\ queue # <<>> /\ index < Len(queue)
    /\ range > Len(queue) \/ index >= range

\* share/state.rs generate_withdrawal_merkle_proof: <<>> for None (and where
\* it panics), else <<(leaf_hash, proof, index, root)>>
generate_withdrawal_merkle_proof(queue, index, range) ==
    IF queue = <<>> \/ index >= Len(queue) THEN <<>>
    ELSE IF GenerateProofPanics(queue, index, range) THEN <<>>
    ELSE LET leaf_hashes == [i \in 1..range |-> calculate_withdrawal_hash(queue[i])]
             nodes == PadZeroLeaf(leaf_hashes)
         IN <<[leaf_hash |-> leaf_hashes[index + 1],
               proof |-> CollectProof(nodes, index),
               index |-> index,
               root |-> MerkleTop(nodes)[1]]>>

\* one call of generate_withdrawal_merkle_proof on the queue of the state
generate_proof(index, range) ==
    /\ last' = [op |-> "generate_withdrawal_merkle_proof",
                res |-> generate_withdrawal_merkle_proof(withdrawal_queue, index, range),
                arg |-> [index |-> index, range |-> range],
                panicked |-> GenerateProofPanics(withdrawal_queue, index, range)]
    /\ UNCHANGED <<batches, last_finalized, withdrawal_roots, vault_balances,
                   vault_lamports, finalized_withdrawals, deposited, paid, proven,
                   committed>>
    /\ UNCHANGED seqvars

\* queues of up to MaxQueue withdrawals, each at its own index
WithdrawalQueues ==
    UNION {{[i \in 1..n |-> [from |-> senders[i], to |-> senders[i], amount |-> 1,
                              index |-> i - 1]] : senders \in [1..n -> Users]} :
           n \in 0..MaxQueue}

MerkleInit ==
    /\ L1Init
    /\ \E queue \in WithdrawalQueues :
          /\ mempool = <<>> /\ balances = <<>> /\ withdrawal_queue = queue
          /\ block_db = EmptyBlockDB /\ node = NodeNew(EmptyBlockDB)
          /\ producer = "running" /\ state_db = <<>> /\ restarts = 0
          /\ rpc_response = JsonRpcResponse(<<>>, <<>>) /\ prover = ProverDown /\ tasks = TasksIdle
          /\ oracle = OracleIdle

\* one call per behaviour
MerkleNext ==
    /\ last.op # "generate_withdrawal_merkle_proof"
    /\ \E index \in 0..Len(withdrawal_queue), range \in 0..(Len(withdrawal_queue) + 1) :
          generate_proof(index, range)

\* a proof generated for every queue, index and range
MerkleSpec == MerkleInit /\ [][MerkleNext]_vars

MempoolNext ==
    \/ add_tnx(GoodTx)
    \/ \E request \in RpcRequests : send_transaction(request)

\* admissions alone, through the executor and through the RPC handler, until
\* the mempool takes no more
MempoolSpec == SeqInit /\ [][MempoolNext]_vars

(***************************************************************************)
(* Settlement properties.                                                  *)
(***************************************************************************)
RECURSIVE SumBalances(_)
SumBalances(vec) ==
    IF vec = <<>> THEN 0 ELSE Head(vec)[2] + SumBalances(Tail(vec))

RECURSIVE SumPaid(_, _)
SumPaid(requests, sender) ==
    IF requests = {} THEN 0
    ELSE LET r == CHOOSE x \in requests : TRUE
         IN (IF r.sender = sender THEN paid[r] * r.amount ELSE 0)
                + SumPaid(requests \ {r}, sender)

withdrawn(sender) == SumPaid(WithdrawalRequests, sender)

\* the root is marked finalized in FinalizedWithdrawalRoots
IsFinalRoot(root) ==
    \E i \in 1..Len(withdrawal_roots) : withdrawal_roots[i] = <<root, TRUE>>

BridgeUnchanged ==
    /\ vault_balances' = vault_balances
    /\ vault_lamports' = vault_lamports
    /\ finalized_withdrawals' = finalized_withdrawals

AccountsUnchanged ==
    /\ BridgeUnchanged
    /\ batches' = batches
    /\ last_finalized' = last_finalized
    /\ withdrawal_roots' = withdrawal_roots

\* C2: a withdrawal leaf is paid out at most once: once a withdrawal has
\* succeeded for a request (sender, to, amount, index), no later withdrawal of
\* the same request succeeds, whatever was deposited, committed or proven between.
C2_LeafPaidAtMostOnce == \A r \in WithdrawalRequests : paid[r] <= 1

C4_ProveAdvancesFrontier ==
    (last.op = "prove_batch" /\ last.res = "Ok") =>
        /\ last_finalized = last.arg.batch_index
        /\ IsFinalRoot(batches[FindBatch(batches, last.arg.batch_index)].withdrawal_root)

\* C5: prove_batch fails with BatchNotExist when no record has the index, fails
\* when the verifier rejects the proof, and a failed prove_batch leaves
\* FinalizedFrontier and FinalizedWithdrawalRoots as they were.
C5_ProveFailureNoChange ==
    [][last'.op = "prove_batch" =>
        LET k == last'.arg.batch_index
            pos == FindBatch(batches, k)
        IN /\ pos = 0 => last'.res = "BatchNotExist"
           /\ (pos # 0 /\ ~verify_proof(last'.arg.proof, PiHash(batches[pos])))
                  => last'.res = "InvalidInstructionData"
           /\ last'.res # "Ok" =>
                  /\ last_finalized' = last_finalized
                  /\ withdrawal_roots' = withdrawal_roots]_vars

\* a rejected proof for a stored batch, with a root finalized before
C5_Witness ==
    /\ last.op = "prove_batch" /\ last.res = "InvalidInstructionData"
    /\ withdrawal_roots # <<>>

\* C6: a withdrawal against a root FinalizedWithdrawalRoots does not hold fails
\* with WithdrawalRootNotFinalized and leaves the vault balances, the vault
\* lamports and FinalizedWithdrawals unchanged; a withdrawal succeeds only
\* against a root whose batch proof has verified.
C6_UnfinalizedRootRejected ==
    [][last'.op = "withdrawal" =>
        /\ ~IsFinalRoot(last'.arg.root) =>
               /\ last'.res = "WithdrawalRootNotFinalized"
               /\ BridgeUnchanged
        /\ last'.res = "Ok" => last'.arg.root \in proven]_vars

\* an unfinalized root is refused while the vault holds funds and another root is final
C6_Witness ==
    /\ last.op = "withdrawal" /\ last.res = "WithdrawalRootNotFinalized"
    /\ vault_lamports > 0
    /\ withdrawal_roots # <<>>

\* C7 as stated: every withdrawal of more than the sender's vault balance fails
\* with UserBalanceInsufficent and changes nothing.
C7_AlwaysUserBalanceInsufficent ==
    [][(last'.op = "withdrawal"
          /\ last'.arg.request.amount > get_balance(vault_balances, last'.arg.request.sender))
        => (last'.res = "UserBalanceInsufficent" /\ AccountsUnchanged)]_vars

\* C7 amended: a withdrawal of more than the sender's vault balance always fails
\* and changes nothing; the error is UserBalanceInsufficent when the root is
\* finalized and the inclusion proof verifies, and the error of the earlier
\* check otherwise.  No vault balance is negative and no sender has withdrawn
\* more than they deposited.
C7_OverdrawRejected ==
    /\ [][(last'.op = "withdrawal"
             /\ last'.arg.request.amount
                   > get_balance(vault_balances, last'.arg.request.sender))
           => LET call == last'.arg
                  leaf == WithdrawalDataHash(call.request.sender, call.request.to,
                                             call.request.amount, call.request.index)
              IN /\ AccountsUnchanged
                 /\ last'.res \in {"WithdrawalRootNotFinalized",
                                   "InvalidWithdrawalInclusionProof",
                                   "UserBalanceInsufficent"}
                 /\ (IsFinalRoot(call.root)
                       /\ verify_merkle_proof(leaf, call.proof, call.request.index, call.root))
                        => last'.res = "UserBalanceInsufficent"]_vars
    /\ [](\A u \in Users : /\ get_balance(vault_balances, u) >= 0
                           /\ withdrawn(u) <= deposited[u])

\* B holds 1 lamport in the vault and its proven exit of 2 is refused
C7_Witness ==
    /\ last.op = "withdrawal" /\ last.res = "UserBalanceInsufficent"
    /\ last.arg.request.sender = "B"
    /\ get_balance(vault_balances, "B") = 1
    /\ withdrawn("A") = deposited["A"] /\ deposited["A"] > 0

\* C8: the lamports the vault holds for users equal the sum of
\* BridgeVault.balances, after any deposits and withdrawals, failed ones included.
C8_VaultLamportsEqualBalances == vault_lamports = SumBalances(vault_balances)

\* both users have an entry, one exit was paid and funds remain
C8_Witness ==
    /\ last.op = "withdrawal" /\ last.res = "Ok"
    /\ Len(vault_balances) = 2
    /\ vault_lamports > 0

(***************************************************************************)
(* Sequencer properties.                                                   *)
(***************************************************************************)
StoredBlock(n) == block_db.blocks[n][2]

\* C1: every stored block n >= 2 has prev_state_root equal to the
\* post_state_root of block n-1, and block 1 has the zero root as its
\* prev_state_root.
C1_BlockRootsChain ==
    \A n \in DOMAIN block_db.blocks :
        /\ n = 1 => StoredBlock(n).prev_state_root = <<ZERO32>>
        /\ n - 1 \in DOMAIN block_db.blocks =>
              StoredBlock(n).prev_state_root = StoredBlock(n - 1).post_state_root

\* C9: every committed batch has end_block_num - start_block_num + 1 in
\* 1..256, and the batch after it starts one block after its end_block_num.
C9_BatchRangesContiguous ==
    \A i \in 1..Len(batches) :
        /\ batches[i].end_block_num - batches[i].start_block_num + 1
               \in 1..MAX_BLOCK_COUNT_IN_BATCH
        /\ \A j \in 1..Len(batches) :
               batches[j].batch_index = batches[i].batch_index + 1
                   => batches[j].start_block_num = batches[i].end_block_num + 1

\* C10: the batch with index 1 has the zero root as prev_state_root, and a
\* batch with index k + 1 has the post_state_root of batch k as its
\* prev_state_root.
C10_BatchRootsChain ==
    \A i \in 1..Len(batches) :
        /\ batches[i].batch_index = 1 => batches[i].prev_state_root = ZERO32
        /\ \A j \in 1..Len(batches) :
               batches[j].batch_index = batches[i].batch_index + 1
                   => batches[j].prev_state_root = batches[i].post_state_root

\* two batches are on chain, the second one chained to a non-zero state root
C10_Witness ==
    /\ Len(batches) >= 2
    /\ batches[2].batch_index = 2
    /\ batches[2].prev_state_root # ZERO32
    /\ batches[2].prev_state_root = batches[1].post_state_root

\* C11: the store holds at most one record per batch_index, a lookup by index
\* returns the data committed last for that index, and a successful commit_batch
\* replaces the record of an index already present in place and appends otherwise.
C11_CommitOverwritesOrAppends ==
    /\ [](\A i, j \in 1..Len(batches) :
             batches[i].batch_index = batches[j].batch_index => i = j)
    /\ [](\A k \in DOMAIN committed : get_committed_batch(batches, k) = <<committed[k]>>)
    /\ [][(last'.op = "commit_batch" /\ last'.res = "Ok") =>
             LET k == last'.arg
                 pos == FindBatch(batches, k)
             IN IF pos # 0
                THEN /\ Len(batches') = Len(batches)
                     /\ \A i \in 1..Len(batches) : i # pos => batches'[i] = batches[i]
                     /\ batches'[pos] = committed'[k]
                ELSE batches' = Append(batches, committed'[k])]_vars

\* batch 1 was committed, batch 2 after it, and batch 1 again with another root
C11_Witness ==
    /\ last.op = "commit_batch" /\ last.res = "Ok" /\ last.arg = 1
    /\ Len(batches) = 2
    /\ batches[1].batch_index = 1 /\ batches[2].batch_index = 2
    /\ batches[1].withdrawal_root # batches[2].withdrawal_root
    /\ 1 \in DOMAIN committed /\ batches[1] = committed[1]
    /\ IsFinalRoot(batches[2].withdrawal_root)

\* C12: the mempool never holds more than MAX_MEMPOOL_SIZE (1024) transactions;
\* an admission attempted while it holds 1024 is rejected.
C12_MempoolBounded == Len(mempool) <= MAX_MEMPOOL_SIZE

\* a round of the producer during which the stores took every write: it
\* stored a block or its task ended
ProductionRound ==
    /\ producer = "running"
    /\ restarts' = restarts
    /\ block_db'.io_errors = block_db.io_errors
    /\ producer' = "panicked" \/ node'.latest_block_num = node.latest_block_num + 1

\* C13: block production drains the mempool: after a round of the producer the
\* transactions that were pending are in the block it stored and no longer in
\* the mempool.
C13_ProductionDrains ==
    [][ProductionRound =>
          /\ mempool' = <<>>
          /\ node'.latest_block_num \in DOMAIN block_db'.blocks
          /\ block_db'.blocks[node'.latest_block_num][2].txns = mempool]_vars

\* a sendTransaction call answered with this result and this error code
Answered(result, error) == rpc_response' = JsonRpcResponse(result, error)

\* C14: sendTransaction validates before it touches the mempool: a transaction
\* that fails validation leaves the mempool unchanged and is answered with
\* error -32003, and a transaction sent while the mempool is full (holds
\* MAX_MEMPOOL_SIZE transactions or more) is not added and is answered with
\* error -32602.
C14_SendTransactionErrors ==
    [][\A txn \in RpcTxs :
          send_transaction([decoded |-> <<txn>>]) =>
              /\ validate_transaction(TRUE, txn) = "Err" =>
                     mempool' = mempool /\ Answered(<<>>, <<-32003>>)
              /\ validate_transaction(TRUE, txn) = "Ok"
                   /\ Len(mempool) >= MAX_MEMPOOL_SIZE =>
                     mempool' = mempool /\ rpc_response'.error = <<-32602>>]_vars

\* the part of C14 about validation: a transaction that fails validation is
\* never added and is answered with -32003
C14_ValidationFirst ==
    [][\A txn \in RpcTxs :
          send_transaction([decoded |-> <<txn>>]) /\ validate_transaction(TRUE, txn) = "Err" =>
              mempool' = mempool /\ Answered(<<>>, <<-32003>>)]_vars

(***************************************************************************)
(* Executor properties, over one run of transfer.                          *)
(***************************************************************************)
Ran == last.op = "transfer"

\* what a run does when a transfer that cannot be paid is dropped and the
\* operations after it are still applied
RECURSIVE DropAndContinue(_, _)
DropAndContinue(map, ops) ==
    IF ops = <<>> THEN map
    ELSE IF BalanceOf(map, Head(ops).from) < Head(ops).amount
    THEN DropAndContinue(map, Tail(ops))
    ELSE DropAndContinue(MoveBalance(map, Head(ops)), Tail(ops))

\* C15: during block execution a transfer whose sender has less than the
\* amount is dropped without changing any balance, and every later transfer of
\* the block is still applied.
C15_DroppedThenContinues ==
    Ran => balances = DropAndContinue(last.arg.balances, last.arg.ops)

RECURSIVE SumOver(_, _)
SumOver(map, addresses) ==
    IF addresses = {} THEN 0
    ELSE LET a == CHOOSE x \in addresses : TRUE
         IN map[a] + SumOver(map, addresses \ {a})

\* the sum of all L2 balances
TotalBalance(map) == SumOver(map, DOMAIN map)

NoWithdrawalIntent(ops) == \A i \in 1..Len(ops) : ops[i].to # WITHDRAWAL_ADDRESS

\* C16: the sum of all L2 balances is unchanged by executing transfers whose
\* destination is not WITHDRAWAL_ADDRESS, self-transfers and dropped transfers
\* included.
C16_TotalBalancePreserved ==
    Ran /\ NoWithdrawalIntent(last.arg.ops) =>
        TotalBalance(balances) = TotalBalance(last.arg.balances)

\* a run that applied a self-transfer the sender could pay and then dropped
\* a transfer between two users
C16_Witness ==
    /\ Ran /\ NoWithdrawalIntent(last.arg.ops) /\ Len(last.arg.ops) = 2
    /\ last.arg.ops[1].from = last.arg.ops[1].to
    /\ BalanceOf(last.arg.balances, last.arg.ops[1].from) >= last.arg.ops[1].amount
    /\ last.arg.ops[2].from # last.arg.ops[2].to
    /\ last.res = "Err"
    /\ balances = last.arg.balances

\* the Withdrawal records a run appends for its withdrawal-intent transfers
\* when the queue held n records before
RECURSIVE IntentsOf(_, _)
IntentsOf(ops, n) ==
    IF ops = <<>> THEN <<>>
    ELSE IF Head(ops).to = WITHDRAWAL_ADDRESS
    THEN <<[from |-> Head(ops).from, to |-> Head(ops).from, amount |-> Head(ops).amount,
            index |-> n]>> \o IntentsOf(Tail(ops), n + 1)
    ELSE IntentsOf(Tail(ops), n)

\* C17: executing a transfer to WITHDRAWAL_ADDRESS appends exactly one
\* Withdrawal {from: sender, to: sender, amount, index: queue length before};
\* the queue is append-only and withdrawal_queue[i].index = i for all i.
C17_IntentAppendsWithdrawal ==
    /\ \A i \in 1..Len(withdrawal_queue) : withdrawal_queue[i].index = i - 1
    /\ Ran /\ last.res = "Ok" =>
          withdrawal_queue = last.arg.withdrawal_queue
                                \o IntentsOf(last.arg.ops, Len(last.arg.withdrawal_queue))

RECURSIVE IntentAmount(_)
IntentAmount(ops) ==
    IF ops = <<>> THEN 0
    ELSE (IF Head(ops).to = WITHDRAWAL_ADDRESS THEN Head(ops).amount ELSE 0)
            + IntentAmount(Tail(ops))

RECURSIVE QueueTotal(_)
QueueTotal(queue) ==
    IF queue = <<>> THEN 0 ELSE Head(queue).amount + QueueTotal(Tail(queue))

\* C18: successfully executed withdrawal-intent transfers of total amount x
\* decrease the sum of L2 balances by x and increase the total amount held in
\* the withdrawal queue by x.
C18_IntentMovesToQueue ==
    Ran /\ last.res = "Ok" =>
        /\ TotalBalance(balances) =
              TotalBalance(last.arg.balances) - IntentAmount(last.arg.ops)
        /\ QueueTotal(withdrawal_queue) =
              QueueTotal(last.arg.withdrawal_queue) + IntentAmount(last.arg.ops)

\* C19: block numbers of produced blocks are dense and strictly increasing:
\* the persisted blocks are numbered 1, 2, ... without a gap, each under its
\* own block_num.
C19_BlockNumsDense ==
    /\ DOMAIN block_db.blocks = 1..Cardinality(DOMAIN block_db.blocks)
    /\ \A n \in DOMAIN block_db.blocks : StoredBlock(n).block_num = n

(***************************************************************************)
(* Guest properties.                                                       *)
(***************************************************************************)
Proved == last.op = "guest"

\* some block after the first does not start from the root the block before
\* it ended with
BrokenChain(blocks) ==
    \E i \in 2..Len(blocks) :
        unwrap_or_default(blocks[i].prev_state_root)
            # unwrap_or_default(blocks[i - 1].post_state_root)

\* C20: the guest commits no public input for an input in which some block
\* i > 0 has a prev_state_root different from the post_state_root of block i-1.
C20_GuestRejectsBrokenChain ==
    Proved /\ BrokenChain(last.arg.blocks) => last.res = <<>>

\* the guest rejected two blocks over a funded state that differ from an
\* accepted input only in the prev_state_root of the second block
C20_Witness ==
    /\ Proved /\ BrokenChain(last.arg.blocks) /\ last.res = <<>>
    /\ last.arg.state # <<>>
    /\ Len(last.arg.blocks) = 2
    /\ \E order \in IterationOrders(last.arg.state) :
          guest_main([last.arg EXCEPT !.blocks[2].prev_state_root =
                                        last.arg.blocks[1].post_state_root], order) # <<>>

\* all transactions of the blocks, in block order
RECURSIVE TxnsOf(_)
TxnsOf(blocks) == IF blocks = <<>> THEN <<>> ELSE Head(blocks).txns \o TxnsOf(Tail(blocks))

\* replaying the transfers of these transactions from this state with the
\* rule of the guest (debit, then credit) meets a sender that cannot pay
RECURSIVE MeetsOverdraft(_, _)
MeetsOverdraft(map, txns) ==
    IF txns = <<>> THEN FALSE
    ELSE IF Head(txns).transfer = <<>> THEN MeetsOverdraft(map, Tail(txns))
    ELSE LET op == Head(txns).transfer[1]
         IN \/ BalanceOf(map, op.from) < op.amount
            \/ MeetsOverdraft(MoveBalance(map, op), Tail(txns))

\* C21: the guest commits no public input for an input that holds a transfer
\* whose sender balance, at that point of the replay, is less than the amount.
C21_GuestRejectsOverdraft ==
    Proved /\ MeetsOverdraft(last.arg.state, TxnsOf(last.arg.blocks)) => last.res = <<>>

\* the guest rejected a block that is well formed over its state but for one
\* transfer from a sender without balance; the transfer of the sequencer
\* leaves the balances of that state unchanged
C21_Witness ==
    /\ Proved /\ last.res = <<>>
    /\ Len(last.arg.blocks) = 1
    /\ MeetsOverdraft(last.arg.state, last.arg.blocks[1].txns)
    /\ last.arg.blocks[1].txns_root = <<calculate_txns_root(last.arg.blocks[1].txns)>>
    /\ \A order \in IterationOrders(last.arg.state) :
          last.arg.blocks[1].post_state_root = calculate_state_root(last.arg.state, order)
    /\ transfer(last.arg.state, <<last.arg.blocks[1].txns[1].transfer[1]>>) = last.arg.state

\* the record commit_batch stores for the blocks of a guest input: serialized
\* blocks as the DA field, the roots of the first and of the last block
BatchOfInput(input, withdrawal_root) ==
    BatchDataOf([batch_index |-> 1, start_block_num |-> 1,
                 end_block_num |-> Len(input.blocks),
                 blocks |-> [i \in 1..Len(input.blocks) |-> <<Json(input.blocks[i])>>],
                 prev_state_root |-> unwrap_or_default(input.blocks[1].prev_state_root),
                 post_state_root |->
                     unwrap_or_default(input.blocks[Len(input.blocks)].post_state_root),
                 withdrawal_root |-> withdrawal_root])

\* C22: for the same batch, the public-input digest the guest commits equals
\* the pi_hash prove_state computes on chain: the hash of prev_state_root,
\* post_state_root, withdrawal_root and the DA hash of the serialized blocks.
C22_GuestDigestIsPiHash ==
    Proved /\ last.res # <<>> =>
        \E withdrawal_root \in {ZERO32} \cup WithdrawRoots :
            last.res[1] = PiHash(BatchOfInput(last.arg, withdrawal_root))

\* the part of C22 about the DA hash: the guest hashes the same bytes as
\* commit_batch
C22_DaHashIsBatchHash ==
    Proved /\ last.res # <<>> =>
        calculate_da_hash(last.arg.blocks) = BatchOfInput(last.arg, ZERO32).batch_hash

\* the state the guest rule gives for the operations of the run
Replayed == guest_transfer(last.arg.balances, last.arg.ops)

C23_ReplayGivesSameBalances ==
    Ran /\ last.res = "Ok" => Replayed = <<balances>>

(***************************************************************************)
(* Inclusion proof properties.                                             *)
(***************************************************************************)
Generated == last.op = "generate_withdrawal_merkle_proof"

\* the withdrawal root of the first range entries of the queue
PrefixRoot(range) ==
    unwrap_or_default(calculate_withdrawal_root(SubSeq(withdrawal_queue, 1, range)))

\* C24: for every queue, every range with 1 <= range <= queue length and
\* every index < range, generate_withdrawal_merkle_proof(index, range) gives
\* a proof that verify_merkle_proof accepts for the leaf of that withdrawal
\* against the withdrawal root of queue[0..range), odd ranges included.
C24_GeneratedProofVerifies ==
    Generated /\ last.arg.range <= Len(withdrawal_queue) /\ last.arg.index < last.arg.range =>
        /\ last.res # <<>>
        /\ last.res[1].leaf_hash
              = calculate_withdrawal_hash(withdrawal_queue[last.arg.index + 1])
        /\ verify_merkle_proof(last.res[1].leaf_hash, last.res[1].proof,
                               last.res[1].index, PrefixRoot(last.arg.range))

\* a proof for the last withdrawal of a prefix of five: the leaf is paired
\* with the zero leaf, and its node is the last one of a level of three
C24_Witness ==
    /\ Generated /\ last.arg.range = 5 /\ last.arg.index = 4
    /\ last.res # <<>> /\ Len(last.res[1].proof) = 3
    /\ last.res[1].proof[1] = ZERO32
    /\ last.res[1].proof[2] = Hash(<<last.res[1].leaf_hash, ZERO32>>)
    /\ verify_merkle_proof(last.res[1].leaf_hash, last.res[1].proof, 4, PrefixRoot(5))

\* a step that stored a block under a new number
StoredNewBlock ==
    /\ node'.latest_block_num = node.latest_block_num + 1
    /\ node'.latest_block_num \in DOMAIN block_db'.blocks
    /\ restarts' = restarts

FailedSave == block_db'.io_errors > block_db.io_errors

\* C26: when persisting a block fails with a storage error the producer does
\* not advance block_num, so the next block it produces reuses the number.
C26_FailedSaveKeepsBlockNum ==
    [][FailedSave => node'.latest_block_num = node.latest_block_num]_vars

\* C27: a transaction in which the parser recognises no transfer, or that
\* fails execution, never aborts the block producer: whatever was admitted,
\* the producer task is still running as long as the stores take its writes.
\* Stated for pending transactions the parser answers with None.
C27_ProducerSurvivesTransactions ==
    block_db.io_errors = 0 /\ (\A i \in 1..Len(mempool) : pre_process(mempool[i]) = "None")
        => producer = "running"

\* the first block does not start from the root of the input state, whatever
\* order the state is iterated in
DetachedFirstBlock(input) ==
    /\ input.blocks # <<>>
    /\ \A order \in IterationOrders(input.state) :
          unwrap_or_default(input.blocks[1].prev_state_root)
              # unwrap_or_default(calculate_state_root(input.state, order))

\* C28: the guest commits no public input for an input whose first block has
\* a prev_state_root different from the Merkle root of the supplied state.
C28_GuestRejectsDetachedFirstBlock ==
    Proved /\ DetachedFirstBlock(last.arg) => last.res = <<>>

\* a round of the prover host that calls gen_proof::prove for a batch
NewAttempt == prover'.attempt # <<>> /\ prover'.attempt # prover.attempt

\* the state roots of the state handed to the guest, one per iteration order
SnapshotRoots(attempt) ==
    {unwrap_or_default(calculate_state_root(attempt.state.balances, order)) :
        order \in IterationOrders(attempt.state.balances)}

RootsOf(map) ==
    {unwrap_or_default(calculate_state_root(map, order)) : order \in IterationOrders(map)}

\* C30: after a block n is produced successfully, the store holds the block
\* under block_n, latest_block_num is n, latest_state_root is the block's
\* post_state_root, which is a root of the state after execution, and the
\* persisted balances and withdrawal queue are that state.
C30_SuccessfulBlockIsPersisted ==
    [][StoredNewBlock /\ ~FailedSave
          => LET n == node'.latest_block_num
                 stored == block_db'.blocks[n]
             IN /\ stored = Json(stored[2])
                /\ stored[2].block_num = n
                /\ block_db'.latest_block_num = <<n>>
                /\ stored[2].post_state_root # <<>>
                /\ block_db'.latest_state_root = stored[2].post_state_root
                /\ stored[2].post_state_root[1] \in RootsOf(balances')
                /\ state_db' = <<[balance_state |-> balances',
                                  withdrawal_queue |-> withdrawal_queue']>>]_vars

\* a second block was produced over the seeded state with every write
\* succeeding, and the store holds it with the state it was sealed over
C30_Witness ==
    /\ block_db.io_errors = 0
    /\ block_db.latest_block_num = <<2>>
    /\ 2 \in DOMAIN block_db.blocks
    /\ block_db.latest_state_root = StoredBlock(2).post_state_root
    /\ block_db.latest_state_root # <<ZERO32>>
    /\ state_db = <<[balance_state |-> balances, withdrawal_queue |-> withdrawal_queue]>>
    /\ balances # <<>>

\* a wake-up of the producer in which both reads of the clock gave the same
\* time and the stores refused no write
PlainWake ==
    /\ last'.op = "wake" /\ mempool' = mempool /\ restarts' = restarts
    /\ last'.arg.elapsed = last'.arg.elapsed_again
    /\ last'.arg.pending_size = Len(mempool)
    /\ ~FailedSave

\* the rule PRODUCE of the block clock, T being BLOCK_TIME_INTERVAL
Produce(elapsed, mempool_nonempty) ==
    (elapsed >= BLOCK_TIME_INTERVAL /\ mempool_nonempty)
        \/ elapsed >= 10 * BLOCK_TIME_INTERVAL

\* C31: the producer produces a block on a wake-up exactly when (elapsed >= T
\* and the mempool is non-empty) or elapsed >= 10 * T: none before T has
\* elapsed, and an empty one once 10 * T has elapsed with an empty mempool.
C31_BlockExactlyWhenDue ==
    [][PlainWake => (StoredNewBlock <=> Produce(last'.arg.elapsed, mempool # <<>>))]_vars

\* the half of C31 the loop keeps: no block before T has elapsed, and none
\* over an empty mempool before 10 * T
C31_NoBlockBeforeDue ==
    [][PlainWake /\ StoredNewBlock => Produce(last'.arg.elapsed, mempool # <<>>)]_vars

\* some task holds a read guard of STATE: the live state is visible to it
ReaderSeesState == \E guard \in tasks.locks["state"].held : guard.mode = "read"

\* C32: no reader of the live state observes a transfer half applied: in
\* every state visible to a reader no transfer has debited its sender without
\* having credited its recipient.
C32_NoHalfAppliedTransferSeen == ReaderSeesState => ~tasks.debited

\* a reader that was answered a balance of 1 holds the state again while
\* execute, with transfers to apply, waits for its write guard
C32_Witness ==
    /\ ReaderSeesState
    /\ tasks.pc["producer"] = [handler |-> "execute", at |-> 2, waiting |-> TRUE]
    /\ tasks.ops # <<>>
    /\ BalanceOf(balances, "A") = 1 /\ BalanceOf(balances, "B") = 1
    /\ rpc_response = JsonRpcResponse(<<1>>, <<>>)

\* the task is inside a handler and its next step can be taken
CanStep(task) ==
    LET pc == tasks.pc[task]
        instr == Program(pc.handler)[pc.at]
    IN /\ pc # Idle
       /\ pc.waiting => Granted(tasks.locks[instr.lock], task)

\* C38: the lock usage of the producer, the batcher and the RPC handlers is
\* deadlock-free: whenever some task waits for a lock, some task inside a
\* handler can take its next step, so no set of tasks waits for each other.
C38_NoDeadlock ==
    (\E task \in TaskIds : tasks.pc[task].waiting) => \E task \in TaskIds : CanStep(task)

\* the producer holds the mempool in execute and waits to write the state
\* behind a balance query, a second query waits behind the producer, and the
\* batcher holds the block store
C38_Witness ==
    /\ tasks.pc["producer"].handler = "round" /\ tasks.pc["producer"].waiting
    /\ tasks.locks["mempool"].held = {[task |-> "producer", mode |-> "write"]}
    /\ tasks.locks["state"].held = {[task |-> "rpc1", mode |-> "read"]}
    /\ tasks.locks["state"].queue = <<[task |-> "producer", mode |-> "write"],
                                      [task |-> "rpc2", mode |-> "read"]>>
    /\ tasks.locks["block_db"].held = {[task |-> "batcher", mode |-> "read"]}

\* the leaf bridge.rs recomputes for the withdrawal a proof was generated for
OnChainLeaf ==
    LET w == withdrawal_queue[last.arg.index + 1]
    IN WithdrawalDataHash(w.from, w.to, w.amount, w.index)

\* C33: for a withdrawal queued on L2 by an account, the leaf the settlement
\* program recomputes for the same sender, recipient, amount and index equals
\* the leaf the sequencer hashed into the withdrawal tree, so the proof the
\* sequencer generated is accepted against the root of the queue.
C33_OnChainLeafIsQueueLeaf ==
    Generated /\ last.res # <<>> =>
        /\ OnChainLeaf = calculate_withdrawal_hash(withdrawal_queue[last.arg.index + 1])
        /\ verify_merkle_proof(OnChainLeaf, last.res[1].proof, last.res[1].index,
                               PrefixRoot(last.arg.range))

(***************************************************************************)
(* Deposit oracle properties.                                              *)
(***************************************************************************)
\* the messages of the events received so far, in order
ReceivedParams == [i \in 1..Len(oracle.received) |-> RelayParam(oracle.received[i])]

\* the messages still to be sent: those of the events in the channel
PendingParams == [i \in 1..Len(oracle.rx) |-> RelayParam(oracle.rx[i])]

\* C34: every DepositEvent the oracle received is eventually relayed to L2: a
\* message whose sending failed is kept for a later round of the loop and not
\* discarded, so every event received has been relayed or is still to be sent.
C34_EventRelayedOrPending == ReceivedParams = oracle.relayed \o PendingParams

(***************************************************************************)
(* Finality properties.                                                    *)
(***************************************************************************)
\* the stored record of the batch the latest instruction named
NamedRecord == batches'[FindBatch(batches', last'.arg.batch_index)]

\* a step in which prove_batch succeeds while no batch was finalized before
FirstFinality ==
    /\ proven = {} /\ proven' # {}
    /\ last'.op = "prove_batch" /\ last'.res = "Ok"

\* C35: each newly finalized batch chains from the previously finalized one:
\* when prove_batch(k) succeeds, the record's prev_state_root is the
\* post_state_root of the batch finalized before it, and the zero root when
\* none was.  Stated for the first batch that is finalized.
C35_FinalizedChainsFromZero ==
    [][FirstFinality => NamedRecord.prev_state_root = ZERO32]_vars

\* the latest instruction was a successful prove_batch
JustProven == last.op = "prove_batch" /\ last.res = "Ok"

\* C36: a finalized batch record is immutable: after prove_batch(k) has
\* succeeded, no commit_batch with batch_index k changes the stored record of
\* k.  Stated for the instruction that follows the proof.
C36_FinalizedRecordImmutable ==
    [][JustProven => get_committed_batch(batches', last.arg.batch_index)
                        = get_committed_batch(batches, last.arg.batch_index)]_vars

\* the record committed for the batch after the frontier, when there is one
FrontierBatch == get_committed_batch(batches, last_finalized + 1)

\* batch k is the next to finalize, it is committed, its blocks load from the
\* local block store and the verifier accepts the proof the prover generates
Provable(k) ==
    /\ last_finalized + 1 = k
    /\ FrontierBatch # <<>>
    /\ ~BlockCountOverflows(FrontierBatch[1])
    /\ LET blocks == load_blocks(block_db, FrontierBatch[1].start_block_num,
                                 FrontierBatch[1].end_block_num)
       IN /\ blocks # <<>>
          /\ blocks[1] # <<>>
          /\ verify_proof(accepted_proof(FrontierBatch[1], prover.state, blocks[1], <<>>)[1],
                          PiHash(FrontierBatch[1]))

\* C37: when the batch after the finalized frontier is committed, its blocks
\* are available locally and the verifier accepts the generated proof, the
\* fairly scheduled prover loop eventually raises the frontier to that batch.
C37_ProvableBatchIsFinalized ==
    \A k \in 1..MaxBatches : Provable(k) ~> last_finalized >= k

\* the prover host has submitted the proof of a provable batch
DriverSubmitted ==
    /\ Provable(last_finalized + 1)
    /\ last'.op = "prove_batch"
    /\ last' # last

\* C37, one step of it: the submission of the prover host for a provable
\* batch raises the frontier to that batch.
C37_SubmissionRaisesFrontier ==
    [][DriverSubmitted => last_finalized' = last_finalized + 1]_vars

\* C39: calculate_state_root is a function of the balance map alone: the
\* state a run of the executor leaves has one root, whatever order the map
\* is iterated in by the process that computes it.
C39_RootIsFunctionOfBalances ==
    Ran => \A first, second \in IterationOrders(balances) :
               calculate_state_root(balances, first)
                   = calculate_state_root(balances, second)

\* the part of C39 that holds: with at most one account the root is unique
C39_OneAccountOneRoot ==
    Ran /\ Cardinality(DOMAIN balances) <= 1 => Cardinality(RootsOf(balances)) = 1

\* a request outside the queue or outside the batch boundary
OutOfBounds(index, range) ==
    \/ index >= range
    \/ range = 0
    \/ range > Len(withdrawal_queue)

\* C40: generate_withdrawal_merkle_proof returns None and does not fault for
\* every out-of-bounds request: index >= range, range = 0, or range greater
\* than the queue length.
C40_OutOfBoundsIsNone ==
    Generated /\ OutOfBounds(last.arg.index, last.arg.range)
        => last.res = <<>> /\ ~last.panicked

\* the part of C40 that holds: an index at or past the end of the queue is
\* answered with None before anything is read
C40_PastTheQueueIsNone ==
    Generated /\ last.arg.index >= Len(withdrawal_queue)
        => last.res = <<>> /\ ~last.panicked
====
